---- MODULE Spec2Model ----
(***************************************************************************)
(* Verification model of the allezon analytics pipeline: the record store  *)
(* gateway (compare-and-set updates of aggregate and profile records, the  *)
(* profile and aggregate reads), the aggregation engine of the consumer    *)
(* and the bucket range of the aggregates query; the parsers and the reply *)
(* builder of the API server; the producer and the consumer of the event   *)
(* queue.                                                                  *)
(*                                                                         *)
(* A DateTime<Utc> is an integer: milliseconds since the Unix epoch, the   *)
(* precision of an event's time.  All times drawn here are at or after     *)
(* the epoch.                                                              *)
(***************************************************************************)
EXTENDS Integers, Sequences, FiniteSets, Bags, TLC

(***************************************************************************)
(* Bounds of the model.                                                    *)
(***************************************************************************)
\* concurrent UpdateAggregate calls on one key
NumCalls == 3
\* events delivered to one aggregation engine
MaxEvents == 3
\* concurrent UpdateUserProfile calls
NumUpdates == 3
\* PROFILE_TAGS_LIMIT, the length a stored list is truncated to: 200 in the
\* source, scaled down so that the calls of one behaviour exceed it
PROFILE_TAGS_LIMIT == 2
\* the longest bucket range drawn, in minutes (the parser admits up to 10)
MaxSpan == 3

VARIABLES
    \* ---- one aggregate record and the calls updating it
    record,     \* the store's record of one (action, bucket) key
    calls,      \* per call: position in update_aggregate and its locals
    before,     \* (count, sum_price) stored before the first call
    client,     \* which gateway runs the calls: "DbClient" | "SimpleDbClient"
    \* ---- the aggregate store and one aggregation engine (AggregatesProcessor)
    store,      \* aggregate records: store key -> record
    filter,     \* the engine's AggregatesFilter
    to_store,   \* (action, bucket) -> accumulated (count, sum_price)
    to_mark,    \* substream -> offset of the last event received
    engine,     \* "running" | "flushing" | "failed" | "stopped"
    work,       \* the accumulators drained by the running flush, one update each
    error_flag, \* error_flag of the running flush
    marked,     \* substream -> offset last passed to mark_processed
    received,   \* (substream, offset) -> the event the engine received
    written,    \* the events whose delta a successful update_aggregate wrote
    \* ---- the profile store, the calls updating it and the last profile read
    profiles,   \* profile records: key -> [bins, generation]
    updates,    \* per call: position in the profile update and its locals
    writer,     \* "DbClient" | "SimpleDbClient" | "UserProfilesProcessor"
    profile_reply,  \* the GetUserProfile made since the profile store was last touched
    \* ---- the last GetAggregates
    aggregates_reply,   \* query, batch-read order, outcome
    \* ---- one call of a parser or of the reply builder of the API server
    args,       \* the function called and its arguments
    ret,        \* what the call returned
    \* ---- the event queue: one topic, the ingest handler, one consumer
    topic,      \* partition -> the records enqueued, in offset order
    requests,   \* the POST /user_tags requests answered, in order
    consumer,   \* the state of consume, and the message it failed at
    position,   \* partition -> the offset the stream delivers next
    stored_offset,  \* partition -> the offset stored for the next commit
    committed,  \* partition -> the offset committed to the broker
    processed,  \* the messages the processor returned success for, in order
    \* the API server process with its in-process aggregation worker
    build,      \* "src": tag channel to the worker; "api_server": shared queue
    saves,      \* request -> the position of its App::save_user_tag call
    receiver,   \* the requests whose tags are in the unbounded channel, in order
    aggregates_queue,   \* key -> the deltas summed for the next tick
    worker,     \* the position of Worker::run and the work it took
    tasks,      \* the work left to the spawned push_to_db tasks
    passed,     \* the bag of the deltas passed to update_aggregate
    server,     \* the state of ApiServer::run and run_server
    stop_flag,  \* Worker::stop_flag
    app_refs    \* the holders of an Arc<App>

casVars == <<record, calls, before, client>>
engVars == <<store, filter, to_store, to_mark, engine, work, error_flag, marked,
             received, written>>
proVars == <<profiles, updates, writer, profile_reply>>
qryVars == <<aggregates_reply>>
fnVars == <<args, ret>>
queVars == <<topic, requests, consumer, position, stored_offset, committed,
             processed>>
appVars == <<build, saves, receiver, aggregates_queue, worker, tasks, passed,
             server, stop_flag, app_refs>>

vars == <<casVars, engVars, proVars, qryVars, fnVars, queVars, appVars>>

\* what the actions of one part leave alone
notCas == <<engVars, proVars, qryVars, fnVars, queVars, appVars>>
notEng == <<casVars, proVars, qryVars, fnVars, queVars, appVars>>
notPro == <<casVars, engVars, qryVars, fnVars, queVars, appVars>>
notQry == <<casVars, engVars, proVars, fnVars, queVars, appVars>>
notFn == <<casVars, engVars, proVars, qryVars, queVars, appVars>>
notQue == <<casVars, engVars, proVars, qryVars, fnVars, appVars>>
notApp == <<casVars, engVars, proVars, qryVars, fnVars, queVars>>

(***************************************************************************)
(* Integer helpers.                                                        *)
(***************************************************************************)
\* Rust's integer division: the quotient truncated toward zero.
TruncDiv(a, b) == IF a >= 0 THEN a \div b ELSE -((-a) \div b)

RECURSIVE SumOver(_, _)
\* the sum of f[x] over the finite set S
SumOver(f, S) ==
    IF S = {} THEN 0
    ELSE LET x == CHOOSE y \in S : TRUE IN f[x] + SumOver(f, S \ {x})

\* no profile read was made since the profile store was last touched
NoReply == [result |-> "none"]

\* no profile update runs and no read was made
ProIdle ==
    /\ profiles = <<>>
    /\ updates = <<>>
    /\ writer = "DbClient"
    /\ profile_reply = NoReply

\* no aggregates query was made
NoAggregates == [result |-> "none"]

QryIdle == aggregates_reply = NoAggregates

\* no parser and no reply builder was called
NotCalled == [fn |-> "none"]
FnIdle == args = NotCalled /\ ret = NotCalled

\* no topic, no request, no consumer
QueIdle ==
    /\ topic = <<>> /\ requests = <<>> /\ consumer = [state |-> "stopped"]
    /\ position = <<>> /\ stored_offset = <<>> /\ committed = <<>>
    /\ processed = <<>>

\* no API server process runs
AppIdle ==
    /\ build = "src" /\ saves = <<>> /\ receiver = <<>>
    /\ aggregates_queue = <<>> /\ worker = [pc |-> "none"] /\ tasks = {}
    /\ passed = <<>> /\ server = "none" /\ stop_flag = FALSE /\ app_refs = {}

\* no aggregation engine runs
ProcessorIdle ==
    /\ filter = [origin |-> TRUE, brand_id |-> TRUE, category_id |-> TRUE]
    /\ to_store = <<>>
    /\ to_mark = <<>>
    /\ engine = "stopped"
    /\ work = <<>>
    /\ error_flag = FALSE
    /\ marked = <<>>
    /\ received = <<>>
    /\ written = {}

\* the part of the state the aggregation engine owns, when no engine runs
EngIdle == store = <<>> /\ ProcessorIdle

(***************************************************************************)
(* The aggregate record of one key and UpdateAggregate's CAS loop.         *)
(***************************************************************************)
Calls == 1..NumCalls

\* the deltas (count, sum_price) a call may carry
Deltas == {<<1, 10>>, <<2, 5>>}

\* a key the store holds no record for: a read answers KeyNotFoundError and a
\* generation-checked write sees generation 0
AbsentRecord == [present |-> FALSE, count |-> 0, sum_price |-> 0, generation |-> 0]

InitialRecords ==
    {AbsentRecord,
     [present |-> TRUE, count |-> 3, sum_price |-> 7, generation |-> 2]}

NewCall(d) ==
    [pc |-> "get", count |-> d[1], sum_price |-> d[2],
     old_count |-> 0, old_sum_price |-> 0, generation |-> 0, conflicts |-> 0]

CasIdle ==
    /\ record = AbsentRecord
    /\ before = <<0, 0>>
    /\ client = "DbClient"
    /\ calls = <<>>

CasInit ==
    /\ EngIdle /\ ProIdle /\ QryIdle /\ FnIdle /\ QueIdle /\ AppIdle
    /\ record \in InitialRecords
    /\ before = <<record.count, record.sum_price>>
    /\ client \in {"DbClient", "SimpleDbClient"}
    /\ calls \in {f \in [Calls -> {NewCall(d) : d \in Deltas}] : TRUE}

\* client.get(&ReadPolicy::default(), &key, Bins::All): the record's bins and
\* generation, or (0, 0, 0) on KeyNotFoundError
Get(i) ==
    /\ calls[i].pc = "get"
    /\ calls' = [calls EXCEPT ![i].pc = "put",
                              ![i].old_count = record.count,
                              ![i].old_sum_price = record.sum_price,
                              ![i].generation = record.generation]
    /\ UNCHANGED <<record, before, client, notCas>>

\* the read fails with another error: bail!("failed to fetch profile")
GetError(i) ==
    /\ calls[i].pc = "get"
    /\ calls' = [calls EXCEPT ![i].pc = "err"]
    /\ UNCHANGED <<record, before, client, notCas>>

\* what a put of both bins leaves in the store
Written(c) ==
    [present |-> TRUE,
     count |-> c.old_count + c.count,
     sum_price |-> c.old_sum_price + c.sum_price,
     generation |-> record.generation + 1]

\* a put without the generation check (GenerationPolicy::None)
PutOkUnchecked(i) ==
    /\ calls[i].pc = "put"
    /\ record' = Written(calls[i])
    /\ calls' = [calls EXCEPT ![i].pc = "ok"]
    /\ UNCHANGED <<before, client, notCas>>

\* client.put with GenerationPolicy::ExpectGenEqual: the write is applied when the
\* record's generation is the one read
PutOk(i) ==
    /\ calls[i].pc = "put"
    /\ calls[i].generation = record.generation
    /\ record' = Written(calls[i])
    /\ calls' = [calls EXCEPT ![i].pc = "ok"]
    /\ UNCHANGED <<before, client, notCas>>

\* the put answers GenerationError: DbClient::update_aggregate loops (Ok(false)),
\* SimpleDbClient::update_aggregate returns the error
PutGenerationError(i) ==
    /\ calls[i].pc = "put"
    /\ calls[i].generation # record.generation
    /\ calls' = [calls EXCEPT
                   ![i].pc = IF client = "DbClient" THEN "get" ELSE "err",
                   ![i].conflicts = @ + 1]
    /\ UNCHANGED <<record, before, client, notCas>>

\* the put fails with a transport error, the write applied by the store or not
PutError(i) ==
    /\ calls[i].pc = "put"
    /\ \/ UNCHANGED record
       \/ /\ calls[i].generation = record.generation
          /\ record' = Written(calls[i])
    /\ calls' = [calls EXCEPT ![i].pc = "err"]
    /\ UNCHANGED <<before, client, notCas>>

CasNext ==
    \E i \in Calls :
        \/ Get(i)
        \/ GetError(i)
        \/ PutOk(i)
        \/ PutGenerationError(i)
        \/ PutError(i)

Spec == CasInit /\ [][CasNext]_vars

AllOk == \A i \in Calls : calls[i].pc = "ok"

\* C1: when every concurrent UpdateAggregate call on the key has returned
\* success, the stored (count, sum_price) is the value before the calls plus the
\* sum of the calls' deltas, whatever the interleaving of reads and writes.
C1_CasSumOfDeltas ==
    AllOk =>
        /\ record.count = before[1] + SumOver([i \in Calls |-> calls[i].count], Calls)
        /\ record.sum_price =
               before[2] + SumOver([i \in Calls |-> calls[i].sum_price], Calls)

\* every call succeeded, one of them after a generation conflict, on a record
\* that held a value before
C1_Witness ==
    /\ AllOk
    /\ client = "DbClient"
    /\ before = <<3, 7>>
    /\ \E i \in Calls : calls[i].conflicts > 0
    /\ \E i, j \in Calls : calls[i].count # calls[j].count

(***************************************************************************)
(* User tags, buckets and store keys.                                      *)
(***************************************************************************)
\* Option<T>: None, Some(v)
None == <<>>
Some(v) == <<v>>
\* bool::then
Then(flag, v) == IF flag THEN Some(v) ELSE None
\* Option::unwrap_or
UnwrapOr(opt, d) == IF opt = None THEN d ELSE opt[1]

\* a UserTag; country, device and product_id take part in nothing modelled here
Tag(t, ck, a, o, b, c, p) ==
    [time |-> t, cookie |-> ck, action |-> a, origin |-> o,
     brand_id |-> b, category_id |-> c, price |-> p]

\* DateTime::timestamp(): whole seconds since the epoch of a time in milliseconds
Timestamp(t) == t \div 1000

\* the minute id of a bucket: time.timestamp() / 60
MinuteId(t) == TruncDiv(Timestamp(t), 60)

\* AggregatesFilter::all(): i in 0..8, a dimension keyed when its bit of i is 0
AllFilters ==
    {[origin |-> (i % 2 = 0), brand_id |-> ((i \div 2) % 2 = 0),
      category_id |-> ((i \div 4) % 2 = 0)] : i \in 0..7}

\* AggregatesFilter::make_bucket
make_bucket(f, tag) ==
    [time |-> tag.time,
     origin |-> Then(f.origin, tag.origin),
     brand_id |-> Then(f.brand_id, tag.brand_id),
     category_id |-> Then(f.category_id, tag.category_id)]

\* the key of an aggregate record: the set named after the action and the user
\* key "<minute>--<origin>--<brand_id>--<category_id>", an absent dimension empty
StoreKey(action, bucket) ==
    <<action, MinuteId(bucket.time), UnwrapOr(bucket.origin, ""),
      UnwrapOr(bucket.brand_id, ""), UnwrapOr(bucket.category_id, "")>>

\* the record the store holds under a key
Lookup(key) == IF key \in DOMAIN store THEN store[key] ELSE AbsentRecord

(***************************************************************************)
(* The aggregation engine: AggregatesProcessor::run, its updates made by   *)
(* SimpleDbClient::update_aggregate.                                       *)
(***************************************************************************)
SubStreams == {"p0", "p1"}

\* the events a stream may deliver: two of one minute, at different instants and
\* of different origins and brands, and one of the next minute and the other action
EngineTags ==
    {Tag(0, "c1", "VIEW", "EU", "B1", "C1", 10),
     Tag(1000, "c2", "VIEW", "US", "B2", "C1", 5),
     Tag(60000, "c1", "BUY", "EU", "B1", "C1", 7)}

\* the projections an engine is run with here: origin keyed or not, brand_id and
\* category_id keyed together or not
EngineFilters == {f \in AllFilters : f.brand_id = f.category_id}

\* the offset of the next event of a substream: offsets of a partition grow by one
NextOffset(s) == Cardinality({e \in DOMAIN received : e[1] = s})

EngInit ==
    /\ CasIdle /\ ProIdle /\ QryIdle /\ FnIdle /\ QueIdle /\ AppIdle
    /\ store = <<>>
    /\ filter \in EngineFilters
    /\ to_store = <<>>
    /\ to_mark = <<>>
    /\ engine = "running"
    /\ work = <<>>
    /\ error_flag = FALSE
    /\ marked = <<>>
    /\ received = <<>>
    /\ written = {}

\* HashMap::entry(k).or_default()
EntryOrDefault(k) ==
    IF k \in DOMAIN to_store THEN to_store[k]
    ELSE [count |-> 0, sum_price |-> 0, events |-> {}]

\* an accumulator that is set to the event's values instead of added to
AccumulateOverwrite(acc, tag, e) ==
    [count |-> 1, sum_price |-> tag.price, events |-> acc.events \cup {e}]

\* aggregates.0 += 1; aggregates.1 += price
Accumulate(acc, tag, e) ==
    [count |-> acc.count + 1, sum_price |-> acc.sum_price + tag.price,
     events |-> acc.events \cup {e}]

\* the same with the first offset of a substream kept: entry(..).or_insert(offset)
EventKeepingFirstOffset(s, tag) ==
    /\ engine = "running"
    /\ Cardinality(DOMAIN received) < MaxEvents
    /\ LET offset == NextOffset(s)
           k == <<tag.action, make_bucket(filter, tag)>>
       IN /\ to_store' = [x \in DOMAIN to_store \cup {k} |->
                            IF x = k THEN Accumulate(EntryOrDefault(k), tag, <<s, offset>>)
                            ELSE to_store[x]]
          /\ to_mark' = [x \in DOMAIN to_mark \cup {s} |->
                           IF x \in DOMAIN to_mark THEN to_mark[x] ELSE offset]
          /\ received' = (<<s, offset>> :> tag) @@ received
    /\ UNCHANGED <<store, filter, engine, work, error_flag, marked, written, notEng>>

\* the select branch `event = events.try_next()`
Event(s, tag) ==
    /\ engine = "running"
    /\ Cardinality(DOMAIN received) < MaxEvents
    /\ LET offset == NextOffset(s)
           k == <<tag.action, make_bucket(filter, tag)>>
       IN /\ to_store' = [x \in DOMAIN to_store \cup {k} |->
                            IF x = k THEN Accumulate(EntryOrDefault(k), tag, <<s, offset>>)
                            ELSE to_store[x]]
          /\ to_mark' = [x \in DOMAIN to_mark \cup {s} |->
                           IF x = s THEN offset ELSE to_mark[x]]
          /\ received' = (<<s, offset>> :> tag) @@ received
    /\ UNCHANGED <<store, filter, engine, work, error_flag, marked, written, notEng>>

\* the stream fails or ends: `event?.context("event stream ended unexpectedly")?`
EventError ==
    /\ engine = "running"
    /\ engine' = "failed"
    /\ UNCHANGED <<store, filter, to_store, to_mark, work, error_flag, marked,
                   received, written, notEng>>

\* the select branch `stop.changed()` with the value true or the sender dropped
Stop ==
    /\ engine = "running"
    /\ engine' = "stopped"
    /\ UNCHANGED <<store, filter, to_store, to_mark, work, error_flag, marked,
                   received, written, notEng>>

\* the same leaving the loop on any change of the stop value
StopChangedToFalseStops ==
    /\ engine = "running"
    /\ engine' = "stopped"
    /\ UNCHANGED <<store, filter, to_store, to_mark, work, error_flag, marked,
                   received, written, notEng>>

\* the select branch `stop.changed()` with the value false: the loop goes on
StopChangedToFalse ==
    /\ engine = "running"
    /\ UNCHANGED vars

\* a tick that reads to_store without draining it
TickKeeping ==
    /\ engine = "running"
    /\ work' = [k \in DOMAIN to_store |->
                  [pc |-> "get", count |-> to_store[k].count,
                   sum_price |-> to_store[k].sum_price, events |-> to_store[k].events,
                   old_count |-> 0, old_sum_price |-> 0, generation |-> 0]]
    /\ error_flag' = FALSE
    /\ engine' = "flushing"
    /\ UNCHANGED <<store, filter, to_store, to_mark, marked, received, written, notEng>>

\* the select branch `ticker.tick()`: to_store is drained into the updates
Tick ==
    /\ engine = "running"
    /\ work' = [k \in DOMAIN to_store |->
                  [pc |-> "get", count |-> to_store[k].count,
                   sum_price |-> to_store[k].sum_price, events |-> to_store[k].events,
                   old_count |-> 0, old_sum_price |-> 0, generation |-> 0]]
    /\ to_store' = <<>>
    /\ error_flag' = FALSE
    /\ engine' = "flushing"
    /\ UNCHANGED <<store, filter, to_mark, marked, received, written, notEng>>

\* an update that has returned: its locals are gone
Returned(w, result) ==
    [w EXCEPT !.pc = result, !.old_count = 0, !.old_sum_price = 0, !.generation = 0]

\* update_aggregate of one drained accumulator: the read
UpdateGet(k) ==
    /\ engine = "flushing"
    /\ work[k].pc = "get"
    /\ LET r == Lookup(StoreKey(k[1], k[2]))
       IN work' = [work EXCEPT ![k].pc = "put",
                               ![k].old_count = r.count,
                               ![k].old_sum_price = r.sum_price,
                               ![k].generation = r.generation]
    /\ UNCHANGED <<store, filter, to_store, to_mark, engine, error_flag, marked,
                   received, written, notEng>>

\* the read fails: the update returns the error and the engine sets error_flag
UpdateGetError(k) ==
    /\ engine = "flushing"
    /\ work[k].pc = "get"
    /\ work' = [work EXCEPT ![k] = Returned(@, "err")]
    /\ error_flag' = TRUE
    /\ UNCHANGED <<store, filter, to_store, to_mark, engine, marked, received,
                   written, notEng>>

\* the record a put of both bins leaves under the key
WrittenRecord(w, key) ==
    [present |-> TRUE,
     count |-> w.old_count + w.count,
     sum_price |-> w.old_sum_price + w.sum_price,
     generation |-> Lookup(key).generation + 1]

StorePut(key, rec) == [x \in DOMAIN store \cup {key} |-> IF x = key THEN rec ELSE store[x]]

\* the generation-checked put succeeds: the update returns Ok
UpdatePut(k) ==
    /\ engine = "flushing"
    /\ work[k].pc = "put"
    /\ LET key == StoreKey(k[1], k[2])
       IN /\ work[k].generation = Lookup(key).generation
          /\ store' = StorePut(key, WrittenRecord(work[k], key))
    /\ work' = [work EXCEPT ![k] = Returned(@, "ok")]
    /\ written' = written \cup work[k].events
    /\ UNCHANGED <<filter, to_store, to_mark, engine, error_flag, marked, received,
                   notEng>>

\* the put fails, by a generation conflict or by a transport error with the write
\* applied or not: the update returns the error and the engine sets error_flag
UpdatePutError(k) ==
    /\ engine = "flushing"
    /\ work[k].pc = "put"
    /\ LET key == StoreKey(k[1], k[2])
       IN \/ UNCHANGED store
          \/ /\ work[k].generation = Lookup(key).generation
             /\ store' = StorePut(key, WrittenRecord(work[k], key))
    /\ work' = [work EXCEPT ![k] = Returned(@, "err")]
    /\ error_flag' = TRUE
    /\ UNCHANGED <<filter, to_store, to_mark, engine, marked, received, written,
                   notEng>>

\* for_each_concurrent(..).await has returned: every update has completed
UpdatesCompleted == \A k \in DOMAIN work : work[k].pc \in {"ok", "err"}

\* mark_processed of the offsets of the substreams in S
MarkProcessed(S) ==
    [s \in DOMAIN marked \cup S |-> IF s \in S THEN to_mark[s] ELSE marked[s]]

\* a flush end that marks the offsets whatever error_flag holds
FlushMarkIgnoringErrors ==
    /\ engine = "flushing"
    /\ UpdatesCompleted
    /\ marked' = MarkProcessed(DOMAIN to_mark)
    /\ to_mark' = <<>>
    /\ engine' = IF error_flag THEN "failed" ELSE "running"
    /\ work' = <<>>
    /\ UNCHANGED <<store, filter, to_store, error_flag, received, written, notEng>>

\* a flush end that does not wait for the updates
FlushMarkEarly ==
    /\ engine = "flushing"
    /\ ~error_flag
    /\ marked' = MarkProcessed(DOMAIN to_mark)
    /\ to_mark' = <<>>
    /\ engine' = "running"
    /\ work' = <<>>
    /\ UNCHANGED <<store, filter, to_store, error_flag, received, written, notEng>>

\* error_flag is clear: every drained offset is marked and the loop goes on
FlushMark ==
    /\ engine = "flushing"
    /\ UpdatesCompleted
    /\ ~error_flag
    /\ marked' = MarkProcessed(DOMAIN to_mark)
    /\ to_mark' = <<>>
    /\ engine' = "running"
    /\ work' = <<>>
    /\ UNCHANGED <<store, filter, to_store, error_flag, received, written, notEng>>

\* error_flag is set: bail!("Aggregates update failed")
FlushFailed ==
    /\ engine = "flushing"
    /\ UpdatesCompleted
    /\ error_flag
    /\ engine' = "failed"
    /\ work' = <<>>
    /\ UNCHANGED <<store, filter, to_store, to_mark, error_flag, marked,
                   received, written, notEng>>

\* a mark_processed call fails after the offsets of S were marked: run returns
\* the error, the drain is dropped
MarkFailed ==
    /\ engine = "flushing"
    /\ UpdatesCompleted
    /\ ~error_flag
    /\ \E S \in SUBSET (DOMAIN to_mark) :
          /\ S # DOMAIN to_mark
          /\ marked' = MarkProcessed(S)
    /\ to_mark' = <<>>
    /\ engine' = "failed"
    /\ work' = <<>>
    /\ UNCHANGED <<store, filter, to_store, error_flag, received, written, notEng>>

EngNext ==
    \/ \E s \in SubStreams, tag \in EngineTags : Event(s, tag)
    \/ EventError
    \/ Stop
    \/ StopChangedToFalse
    \/ Tick
    \/ \E k \in DOMAIN work :
          \/ UpdateGet(k)
          \/ UpdateGetError(k)
          \/ UpdatePut(k)
          \/ UpdatePutError(k)
    \/ FlushMark
    \/ FlushFailed
    \/ MarkFailed

SpecEngine == EngInit /\ [][EngNext]_vars

\* the records an engine of this filter writes for the events of EngineTags,
\* and the records the store holds
EngineKeys ==
    {StoreKey(t.action, make_bucket(filter, t)) : t \in EngineTags} \cup DOMAIN store

\* the received events a record <<action, minute, origin, brand_id, category_id>>
\* of the engine's projection stands for: those of its action and minute that
\* agree with it on every dimension the projection keys
Matching(key) ==
    {e \in DOMAIN received :
        LET t == received[e]
        IN /\ t.action = key[1]
           /\ key[2] * 60000 <= t.time /\ t.time < (key[2] + 1) * 60000
           /\ IF filter.origin THEN t.origin = key[3] ELSE key[3] = ""
           /\ IF filter.brand_id THEN t.brand_id = key[4] ELSE key[4] = ""
           /\ IF filter.category_id THEN t.category_id = key[5] ELSE key[5] = ""}

\* every event received so far has been flushed by a flush that succeeded
AllFlushed == engine \in {"running", "stopped"} /\ DOMAIN to_store = {}

C3_MarkedOnlyAfterWritten ==
    \A s \in DOMAIN marked :
        \A e \in DOMAIN received :
            (e[1] = s /\ e[2] <= marked[s]) => e \in written

\* an offset past the first is marked on one substream while an event received
\* on the other substream is not written yet
C3_Witness ==
    \E s \in DOMAIN marked :
        /\ marked[s] >= 1
        /\ \E e \in DOMAIN received : e[1] # s /\ e \notin written

\* C4: once an update of a flush has failed the engine marks no offset, consumes
\* no further event and leaves the flush only by returning the error; the
\* failed state is terminal; and offsets are marked only when every update of
\* the flush has completed with success.
C4_FailedFlushMarksNothing ==
    [][/\ error_flag =>
            /\ marked' = marked
            /\ received' = received
            /\ engine' \in {"flushing", "failed"}
       /\ engine = "failed" =>
            /\ engine' = "failed"
            /\ marked' = marked
            /\ received' = received
            /\ store' = store
       /\ marked' # marked =>
            /\ engine = "flushing"
            /\ \A k \in DOMAIN work : work[k].pc = "ok"]_vars

\* the engine has failed in its first flush with offsets of both substreams
\* pending, after another update of that flush had succeeded
C4_Witness ==
    /\ engine = "failed"
    /\ error_flag
    /\ DOMAIN to_mark = SubStreams
    /\ marked = <<>>
    /\ written # {}

(***************************************************************************)
(* The profile store: the update of DbClient (a CAS loop), of              *)
(* SimpleDbClient (one attempt) and of the consumer's UserProfilesProcessor *)
(* (list operations), and the profile reads.                               *)
(*                                                                         *)
(* A bin that holds a JSON string of a Vec<UserTag> is modelled by the     *)
(* sequence of tags: serialize_datetime writes a time with milliseconds,   *)
(* the precision of the times here, and every other field is written as    *)
(* it is.                                                                  *)
(***************************************************************************)
Updates == 1..NumUpdates

\* the events the calls may carry; two calls may carry the same one
ProfileTags ==
    <<Tag(1000, "c1", "VIEW", "EU", "B1", "C1", 10),
      Tag(2000, "c1", "VIEW", "US", "B2", "C1", 5),
      Tag(3000, "c1", "VIEW", "EU", "B1", "C1", 10),
      Tag(2000, "c1", "BUY", "EU", "B1", "C1", 7)>>

\* the events of the calls of one behaviour: the calls run concurrently and are
\* told apart by their events only, so they are numbered in the order of
\* ProfileTags
Workloads ==
    {[i \in Updates |-> ProfileTags[w[i]]] :
        w \in {v \in [Updates -> 1..Len(ProfileTags)] :
                 \A i, j \in Updates : i < j => v[i] <= v[j]}}

Cookies == {"c1"}

Min(a, b) == IF a <= b THEN a ELSE b

\* Action::db_name: the bin of an action
db_name(action) == IF action = "VIEW" THEN "view" ELSE "buy"

\* DbClient::user_profile_key
user_profile_key(cookie) == <<"profiles", cookie>>

\* the key UserProfilesProcessor::process and get_user_tags build
user_tags_key(action, cookie) ==
    <<IF action = "VIEW" THEN "view-profiles" ELSE "buy-profiles", cookie>>

\* time_to_int_user_profile
time_to_int_user_profile(time) == -time

\* the rearrangements of a sequence
Rearrangements(s) ==
    {[i \in 1..Len(s) |-> s[p[i]]] :
        p \in {q \in [1..Len(s) -> 1..Len(s)] : \A i, j \in 1..Len(s) : q[i] = q[j] => i = j}}

\* Vec::truncate
truncate(s, len) == SubSeq(s, 1, Min(Len(s), len))

\* tags.sort_unstable_by_key(|tag| Reverse(tag.time)): the results the sort may
\* give, the order of tags of equal time being left to it
sort_unstable_by_key(tags) ==
    {s \in Rearrangements(tags) : \A i, j \in 1..Len(s) : i < j => s[i].time >= s[j].time}

\* push without the sort: the list keeps its order and truncate drops the new tag
NewTagsUnsorted(tags, user_tag) ==
    {truncate(Append(tags, user_tag), PROFILE_TAGS_LIMIT)}

\* push and sort without truncate
NewTagsUntruncated(tags, user_tag) ==
    sort_unstable_by_key(Append(tags, user_tag))

\* the same with an event that the list already holds left out
NewTagsDeduplicated(tags, user_tag) ==
    IF \E k \in 1..Len(tags) : tags[k] = user_tag THEN {tags}
    ELSE {truncate(t, PROFILE_TAGS_LIMIT) : t \in sort_unstable_by_key(Append(tags, user_tag))}

\* tags.push(user_tag); tags.sort_unstable_by_key(..); tags.truncate(PROFILE_TAGS_LIMIT)
NewTags(tags, user_tag) ==
    {truncate(s, PROFILE_TAGS_LIMIT) : s \in sort_unstable_by_key(Append(tags, user_tag))}

\* parse_user_tags: the tags of a bin, none when the record has no such bin
parse_user_tags(rec, action) ==
    IF db_name(action) \in DOMAIN rec.bins THEN rec.bins[db_name(action)] ELSE <<>>

\* a put that replaces the record: the bins it does not name are gone
PutRecord(key, bins) ==
    LET old == IF key \in DOMAIN profiles THEN profiles[key]
               ELSE [bins |-> <<>>, generation |-> 0]
        rec == [bins |-> bins, generation |-> old.generation + 1]
    IN [k \in DOMAIN profiles \cup {key} |-> IF k = key THEN rec ELSE profiles[k]]

\* a put of bins: the record's other bins stay, its generation grows by one
PutBins(key, bins) ==
    LET old == IF key \in DOMAIN profiles THEN profiles[key]
               ELSE [bins |-> <<>>, generation |-> 0]
        rec == [bins |-> [b \in DOMAIN old.bins \cup DOMAIN bins |->
                            IF b \in DOMAIN bins THEN bins[b] ELSE old.bins[b]],
                generation |-> old.generation + 1]
    IN [k \in DOMAIN profiles \cup {key} |-> IF k = key THEN rec ELSE profiles[k]]

\* the generation a generation-checked write is compared with
GenerationOf(key) == IF key \in DOMAIN profiles THEN profiles[key].generation ELSE 0

\* a call before its first step: the gateways begin with the read, the
\* processor with the creating put
NewUpdate(user_tag, w) ==
    [pc |-> IF w = "UserProfilesProcessor" THEN "put" ELSE "get",
     user_tag |-> user_tag, tags |-> <<>>, generation |-> 0]

\* a call that has returned keeps its event and its result only
Finished(u, result) == [NewUpdate(u.user_tag, writer) EXCEPT !.pc = result]

ProInit ==
    /\ CasIdle /\ EngIdle /\ QryIdle /\ FnIdle /\ QueIdle /\ AppIdle
    /\ profiles = <<>>
    /\ writer \in {"DbClient", "SimpleDbClient", "UserProfilesProcessor"}
    /\ \E w \in Workloads : updates = [i \in Updates |-> NewUpdate(w[i], writer)]
    /\ profile_reply = NoReply

\* try_update_user_profile up to the put: client.get of the action's bin, the
\* tags and the generation read or (vec![], 0) on KeyNotFoundError, then push,
\* sort and truncate
ProfileGet(i) ==
    LET u == updates[i]
        key == user_profile_key(u.user_tag.cookie)
        tags == IF key \in DOMAIN profiles
                THEN parse_user_tags(profiles[key], u.user_tag.action) ELSE <<>>
    IN /\ u.pc = "get"
       /\ \E new \in NewTags(tags, u.user_tag) :
            updates' = [updates EXCEPT ![i] =
                [u EXCEPT !.pc = "put", !.tags = new,
                          !.generation = GenerationOf(key)]]
       /\ profile_reply' = NoReply
       /\ UNCHANGED <<profiles, writer, notPro>>

\* client.get fails with another error: "failed to fetch profile"
ProfileGetError(i) ==
    /\ updates[i].pc = "get"
    /\ updates' = [updates EXCEPT ![i] = Finished(@, "err")]
    /\ profile_reply' = NoReply
    /\ UNCHANGED <<profiles, writer, notPro>>

\* the put without the generation check: it is applied whatever the record's
\* generation has become
ProfilePutUnchecked(i) ==
    LET u == updates[i]
        key == user_profile_key(u.user_tag.cookie)
    IN /\ u.pc = "put"
       /\ writer \in {"DbClient", "SimpleDbClient"}
       /\ profiles' = PutBins(key, [b \in {db_name(u.user_tag.action)} |-> u.tags])
       /\ updates' = [updates EXCEPT ![i] = Finished(u, "ok")]
       /\ profile_reply' = NoReply
       /\ UNCHANGED <<writer, notPro>>

\* client.put under ExpectGenEqual succeeds: the generation read is the record's
ProfilePut(i) ==
    LET u == updates[i]
        key == user_profile_key(u.user_tag.cookie)
    IN /\ u.pc = "put"
       /\ writer \in {"DbClient", "SimpleDbClient"}
       /\ u.generation = GenerationOf(key)
       /\ profiles' = PutBins(key, [b \in {db_name(u.user_tag.action)} |-> u.tags])
       /\ updates' = [updates EXCEPT ![i] = Finished(u, "ok")]
       /\ profile_reply' = NoReply
       /\ UNCHANGED <<writer, notPro>>

\* the put answers GenerationError: DbClient's loop tries again from the read,
\* SimpleDbClient returns the error
ProfilePutGenerationError(i) ==
    LET u == updates[i]
        key == user_profile_key(u.user_tag.cookie)
    IN /\ u.pc = "put"
       /\ writer \in {"DbClient", "SimpleDbClient"}
       /\ u.generation # GenerationOf(key)
       /\ updates' = [updates EXCEPT ![i] =
            IF writer = "DbClient" THEN NewUpdate(u.user_tag, writer)
            ELSE Finished(u, "err")]
       /\ profile_reply' = NoReply
       /\ UNCHANGED <<profiles, writer, notPro>>

\* the put fails with another error; the store may or may not have applied it
ProfilePutError(i) ==
    LET u == updates[i]
        key == user_profile_key(u.user_tag.cookie)
    IN /\ u.pc = "put"
       /\ writer \in {"DbClient", "SimpleDbClient"}
       /\ \/ profiles' = profiles
          \/ /\ u.generation = GenerationOf(key)
             /\ profiles' = PutBins(key, [b \in {db_name(u.user_tag.action)} |-> u.tags])
       /\ updates' = [updates EXCEPT ![i] = Finished(u, "err")]
       /\ profile_reply' = NoReply
       /\ UNCHANGED <<writer, notPro>>

\* as_list!(time, tag_str): the pair the processor stores for an event
PairOf(tag) == <<time_to_int_user_profile(tag.time), tag>>

\* lists::set_order(bin, ListOrderType::Ordered): the orders an ORDERED list
\* may hold its pairs in, ascending by the integer; pairs of one integer are
\* ordered by their strings, which is left open here
set_order(list) ==
    {s \in Rearrangements(list) : \A i, j \in 1..Len(s) : i < j => s[i][1] <= s[j][1]}

\* lists::append under an ORDERED list policy: the pair goes to its sorted place
append(list, pair) == set_order(Append(list, pair))

\* lists::trim(bin, index, count): the items outside [index, index + count) go
trim(list, index, count) == SubSeq(list, index + 1, Min(Len(list), index + count))

\* the operations [set_order, append, trim] of one operate call
Operated(list, pair) ==
    {trim(a, 0, PROFILE_TAGS_LIMIT) :
        a \in UNION {append(o, pair) : o \in set_order(list)}}

\* process: client.put under create_policy (CreateOnly) creates the record
\* with the one-pair list
ProcessPut(i) ==
    LET u == updates[i]
        key == user_tags_key(u.user_tag.action, u.user_tag.cookie)
    IN /\ u.pc = "put"
       /\ writer = "UserProfilesProcessor"
       /\ key \notin DOMAIN profiles
       /\ profiles' = PutBins(key, [b \in {"user_tags"} |-> <<PairOf(u.user_tag)>>])
       /\ updates' = [updates EXCEPT ![i] = Finished(u, "ok")]
       /\ profile_reply' = NoReply
       /\ UNCHANGED <<writer, notPro>>

\* the put answers KeyExistsError or GenerationError: the record exists
ProcessPutKeyExists(i) ==
    LET u == updates[i]
        key == user_tags_key(u.user_tag.action, u.user_tag.cookie)
    IN /\ u.pc = "put"
       /\ writer = "UserProfilesProcessor"
       /\ key \in DOMAIN profiles
       /\ updates' = [updates EXCEPT ![i] = [u EXCEPT !.pc = "operate"]]
       /\ profile_reply' = NoReply
       /\ UNCHANGED <<profiles, writer, notPro>>

\* the put fails with another error; the store may or may not have applied it
ProcessPutError(i) ==
    LET u == updates[i]
        key == user_tags_key(u.user_tag.action, u.user_tag.cookie)
    IN /\ u.pc = "put"
       /\ writer = "UserProfilesProcessor"
       /\ \/ profiles' = profiles
          \/ /\ key \notin DOMAIN profiles
             /\ profiles' = PutBins(key, [b \in {"user_tags"} |-> <<PairOf(u.user_tag)>>])
       /\ updates' = [updates EXCEPT ![i] = Finished(u, "err")]
       /\ profile_reply' = NoReply
       /\ UNCHANGED <<writer, notPro>>

\* client.operate under update_policy (UpdateOnly, no generation check)
ProcessOperate(i) ==
    LET u == updates[i]
        key == user_tags_key(u.user_tag.action, u.user_tag.cookie)
    IN /\ u.pc = "operate"
       /\ key \in DOMAIN profiles
       /\ \E new \in Operated(profiles[key].bins.user_tags, PairOf(u.user_tag)) :
            profiles' = PutBins(key, [b \in {"user_tags"} |-> new])
       /\ updates' = [updates EXCEPT ![i] = Finished(u, "ok")]
       /\ profile_reply' = NoReply
       /\ UNCHANGED <<writer, notPro>>

\* operate fails; the store may or may not have applied it
ProcessOperateError(i) ==
    LET u == updates[i]
        key == user_tags_key(u.user_tag.action, u.user_tag.cookie)
    IN /\ u.pc = "operate"
       /\ \/ profiles' = profiles
          \/ /\ key \in DOMAIN profiles
             /\ \E new \in Operated(profiles[key].bins.user_tags, PairOf(u.user_tag)) :
                  profiles' = PutBins(key, [b \in {"user_tags"} |-> new])
       /\ updates' = [updates EXCEPT ![i] = Finished(u, "err")]
       /\ profile_reply' = NoReply
       /\ UNCHANGED <<writer, notPro>>

\* the queries of a profile read: from <= to as the parser ensures
ProfileQueries ==
    {[from |-> 1000, to |-> 2000, limit |-> 2],
     [from |-> 2000, to |-> 3000, limit |-> 1],
     [from |-> 1000, to |-> 3000, limit |-> 1],
     [from |-> 1000, to |-> 4000, limit |-> 2],
     [from |-> 2000, to |-> 2000, limit |-> 1]}

\* the window kept although it should end before `to`
retain_through_to(tags, q) ==
    SelectSeq(tags, LAMBDA tag : tag.time >= q.from /\ tag.time <= q.to)

\* tags.retain(|tag| tag.time >= from && tag.time < to)
retain(tags, q) ==
    SelectSeq(tags, LAMBDA tag : tag.time >= q.from /\ tag.time < q.to)

\* the record a get of a profile key answers with; no bins on KeyNotFoundError
GetRecord(key) ==
    IF key \in DOMAIN profiles THEN profiles[key] ELSE [bins |-> <<>>, generation |-> 0]

\* DbClient::get_user_profile
get_user_profile(cookie, q) ==
    LET rec == GetRecord(user_profile_key(cookie))
        buys == parse_user_tags(rec, "BUY")
        views == parse_user_tags(rec, "VIEW")
    IN [views |-> truncate(retain(views, q), q.limit),
        buys |-> truncate(retain(buys, q), q.limit)]

\* SimpleDbClient::get_user_profile: both lists are parsed from the bin of
\* Action::Buy
SimpleDbClient_get_user_profile(cookie, q) ==
    LET rec == GetRecord(user_profile_key(cookie))
        buys == parse_user_tags(rec, "BUY")
        views == parse_user_tags(rec, "BUY")
    IN [views |-> truncate(retain(views, q), q.limit),
        buys |-> truncate(retain(buys, q), q.limit)]

\* Iterator::skip_while(|(t, _)| t <= bound): the list past its longest prefix
\* of pairs whose integer is at most the bound
skip_while(list, bound) ==
    LET n == Cardinality({k \in 1..Len(list) : \A m \in 1..k : list[m][1] <= bound})
    IN SubSeq(list, n + 1, Len(list))

\* Iterator::take_while(|(t, _)| t <= bound): the longest such prefix
take_while(list, bound) ==
    LET n == Cardinality({k \in 1..Len(list) : \A m \in 1..k : list[m][1] <= bound})
    IN SubSeq(list, 1, n)

\* record_to_user_tags of the API server that reads the processor's lists
record_to_user_tags(list, q) ==
    LET l == time_to_int_user_profile(q.from)
        r == time_to_int_user_profile(q.to)
        taken == truncate(take_while(skip_while(list, r), l), q.limit)
    IN [i \in 1..Len(taken) |-> taken[i][2]]

\* get_user_tags: the list of one set, empty on KeyNotFoundError
get_user_tags(cookie, q, action) ==
    LET key == user_tags_key(action, cookie)
    IN IF key \in DOMAIN profiles
       THEN record_to_user_tags(profiles[key].bins.user_tags, q) ELSE <<>>

\* the events the store holds for a cookie and an action, in stored order
StoredTags(cookie, action) ==
    IF writer = "UserProfilesProcessor"
    THEN LET key == user_tags_key(action, cookie)
             list == IF key \in DOMAIN profiles THEN profiles[key].bins.user_tags ELSE <<>>
         IN [i \in 1..Len(list) |-> list[i][2]]
    ELSE parse_user_tags(GetRecord(user_profile_key(cookie)), action)

\* GetUserProfile of the gateway that goes with the writer, one read between
\* two steps of the updates; the reply keeps what the store held when it was read
GetUserProfile(cookie, q) ==
    LET lists == CASE writer = "DbClient" -> get_user_profile(cookie, q)
                   [] writer = "SimpleDbClient" -> SimpleDbClient_get_user_profile(cookie, q)
                   [] OTHER -> [views |-> get_user_tags(cookie, q, "VIEW"),
                                buys |-> get_user_tags(cookie, q, "BUY")]
    IN /\ profile_reply = NoReply
       /\ profile_reply' =
            [cookie |-> cookie, query |-> q, result |-> "ok",
             present |-> \E k \in DOMAIN profiles : k[2] = cookie,
             views |-> lists.views, buys |-> lists.buys,
             stored |-> [a \in {"VIEW", "BUY"} |-> StoredTags(cookie, a)]]
       /\ UNCHANGED <<profiles, updates, writer, notPro>>

\* the get fails with an error other than KeyNotFoundError: no reply is built
GetUserProfileError ==
    /\ profile_reply = NoReply
    /\ profile_reply' = [result |-> "err"]
    /\ UNCHANGED <<profiles, updates, writer, notPro>>

\* the calls of UpdateUserProfile
ProNext ==
    \E i \in Updates :
        \/ ProfileGet(i) \/ ProfileGetError(i)
        \/ ProfilePut(i) \/ ProfilePutGenerationError(i) \/ ProfilePutError(i)
        \/ ProcessPut(i) \/ ProcessPutKeyExists(i) \/ ProcessPutError(i)
        \/ ProcessOperate(i) \/ ProcessOperateError(i)

SpecProfile == ProInit /\ [][ProNext]_vars

\* the calls of UpdateUserProfile and the reads of GetUserProfile
ReadNext ==
    \/ ProNext
    \/ \E cookie \in Cookies, q \in ProfileQueries : GetUserProfile(cookie, q)
    \/ GetUserProfileError

SpecProfileRead == ProInit /\ [][ReadNext]_vars

(***************************************************************************)
(* Claims about the profile store.                                         *)
(***************************************************************************)
Actions == {"VIEW", "BUY"}

AllUpdatesOk == \A i \in Updates : updates[i].pc = "ok"

\* the calls that carry an event of the action
UpdatesOf(a) == {i \in Updates : updates[i].user_tag.action = a}

\* the first `limit` of the events of a stored list whose time is in [from, to),
\* in stored order
WindowOf(stored, q) ==
    LET idx == {i \in 1..Len(stored) : q.from <= stored[i].time /\ stored[i].time < q.to}
        nth(k) == CHOOSE i \in idx : Cardinality({j \in idx : j <= i}) = k
    IN [k \in 1..Min(q.limit, Cardinality(idx)) |-> stored[nth(k)]]

\* C5: whatever calls of UpdateUserProfile have run, one after another or
\* concurrently, every stored list of a cookie and an action has at most
\* PROFILE_TAGS_LIMIT entries and is sorted descending by event time.
C5_ListsBoundedAndSorted ==
    \A cookie \in Cookies, a \in Actions :
        LET s == StoredTags(cookie, a)
        IN /\ Len(s) <= PROFILE_TAGS_LIMIT
           /\ \A i, j \in 1..Len(s) : i < j => s[i].time >= s[j].time

\* more successful calls than the limit for one list, which holds two events of
\* one time at its head
C5_Witness ==
    /\ AllUpdatesOk
    /\ Cardinality(UpdatesOf("VIEW")) > PROFILE_TAGS_LIMIT
    /\ LET s == StoredTags("c1", "VIEW")
       IN Len(s) = PROFILE_TAGS_LIMIT /\ Len(s) >= 2 /\ s[1].time = s[2].time

\* C6: when every call has succeeded and the n events of an action have pairwise
\* distinct times, the stored list is the min(n, PROFILE_TAGS_LIMIT) events of
\* the greatest times, newest first, whatever the order the calls ran in.
C6_NewestKept ==
    AllUpdatesOk =>
        \A a \in Actions :
            LET n == Cardinality(UpdatesOf(a))
                events == {updates[i].user_tag : i \in UpdatesOf(a)}
                s == StoredTags("c1", a)
                kept == {s[i] : i \in 1..Len(s)}
            IN Cardinality({e.time : e \in events}) = n =>
                /\ Len(s) = Min(n, PROFILE_TAGS_LIMIT)
                /\ kept \subseteq events
                /\ \A i, j \in 1..Len(s) : i < j => s[i].time > s[j].time
                /\ \A e \in events \ kept : \A k \in kept : e.time < k.time

\* every call carries a VIEW event of a time of its own and the oldest was dropped
C6_Witness ==
    /\ AllUpdatesOk
    /\ Cardinality({updates[i].user_tag.time : i \in UpdatesOf("VIEW")}) = NumUpdates
    /\ NumUpdates > PROFILE_TAGS_LIMIT
    /\ Len(StoredTags("c1", "VIEW")) = PROFILE_TAGS_LIMIT

\* C7: each list GetUserProfile returns (DbClient's, and the API server's over
\* the processor's lists) is the first `limit` of the stored events of the
\* action with from <= time < to, in the stored newest-first order.
C7_WindowAndLimit ==
    (profile_reply.result = "ok" /\ writer # "SimpleDbClient") =>
        /\ profile_reply.views = WindowOf(profile_reply.stored["VIEW"], profile_reply.query)
        /\ profile_reply.buys = WindowOf(profile_reply.stored["BUY"], profile_reply.query)

\* a read whose window leaves out a stored event at exactly `to` and takes in
\* one at exactly `from`
C7_Witness ==
    /\ profile_reply.result = "ok"
    /\ writer = "DbClient"
    /\ LET s == profile_reply.stored["VIEW"]
           q == profile_reply.query
       IN /\ \E i \in 1..Len(s) : s[i].time = q.to
          /\ \E i \in 1..Len(s) : s[i].time = q.from
          /\ Len(profile_reply.views) = 1
          /\ profile_reply.views[1].time = q.from

\* C8: GetUserProfile builds views from the stored VIEW events and buys from the
\* stored BUY events, so that a VIEW event is returned in views only and a BUY
\* event in buys only; when the key is absent both lists are empty.
C8_ViewsFromViewBin ==
    profile_reply.result = "ok" =>
        /\ profile_reply.views = WindowOf(profile_reply.stored["VIEW"], profile_reply.query)
        /\ profile_reply.buys = WindowOf(profile_reply.stored["BUY"], profile_reply.query)
        /\ \A i \in 1..Len(profile_reply.views) : profile_reply.views[i].action = "VIEW"
        /\ \A i \in 1..Len(profile_reply.buys) : profile_reply.buys[i].action = "BUY"
        /\ ~profile_reply.present =>
            profile_reply.views = <<>> /\ profile_reply.buys = <<>>

(***************************************************************************)
(* The aggregates query: the bucket range, the batch read of DbClient and  *)
(* of the API server that merges the records it read, and the reply.       *)
(*                                                                         *)
(* A key of either layout is the tuple StoreKey builds: the action, the    *)
(* minute and the three dimensions, an absent one empty.                   *)
(***************************************************************************)
Minute == 60000

\* NaiveDateTime::second()
second(t) == Timestamp(t) % 60

\* TimeRangeVisitor<true>::visit_str past the parsing of the two datetimes, which
\* carry whole seconds: the checks a bucket range has to pass
IsBucketsRange(from, to) ==
    /\ from % 1000 = 0 /\ to % 1000 = 0
    /\ ~(from > to)
    /\ ~(second(from) # 0 \/ second(to) # 0 \/ (to - from) > 10 * Minute)

\* the instants the endpoints are drawn from, on and off the minute
Instants == {k * (Minute \div 2) : k \in 0..(2 * MaxSpan)}

BucketsRanges ==
    {r \in [from : Instants, to : Instants] : IsBucketsRange(r.from, r.to)}

\* BucketsRange::buckets_count: (to - from).num_minutes()
buckets_count(r) == TruncDiv(r.to - r.from, Minute)

\* the bucket starts with the instant `to` among them
bucket_starts_through_to(r) ==
    [idx \in 1..(buckets_count(r) + 1) |-> r.from + (idx - 1) * Minute]

\* BucketsRange::bucket_starts: (0..count).map(|idx| from + minutes(idx))
bucket_starts(r) ==
    [idx \in 1..buckets_count(r) |-> r.from + (idx - 1) * Minute]

\* the queries: one action, the origin and the brand given or not
Queries ==
    [time_range : BucketsRanges, action : {"VIEW"},
     origin : {None, Some("EU")}, brand_id : {None, Some("B1")},
     category_id : {None},
     aggregates : {<<"COUNT">>, <<"COUNT", "SUM_PRICE">>}]

\* the events whose aggregates the store may hold
QueryTags ==
    {Tag(0, "c1", "VIEW", "EU", "B1", "C1", 10),
     Tag(1000, "c2", "VIEW", "US", "B1", "C1", 5),
     Tag(60000, "c1", "VIEW", "EU", "B2", "C1", 7)}

\* the store after the engines of all projections have written the events E:
\* one record per action and bucket of an event, with the count and the price
\* sum of the events of that bucket
StoreOf(E) ==
    LET keyOf(f, tag) == StoreKey(tag.action, make_bucket(f, tag))
        keys == {keyOf(f, tag) : f \in AllFilters, tag \in E}
        of(key) == {tag \in E : \E f \in AllFilters : keyOf(f, tag) = key}
    IN [key \in keys |->
          [present |-> TRUE, count |-> Cardinality(of(key)),
           sum_price |-> SumOver([tag \in of(key) |-> tag.price], of(key)),
           generation |-> Cardinality(of(key))]]

QryInit ==
    /\ CasIdle /\ ProIdle /\ ProcessorIdle /\ FnIdle /\ QueIdle /\ AppIdle
    /\ store \in {StoreOf(E) : E \in SUBSET QueryTags}
    /\ aggregates_reply = NoAggregates

\* AggregatesBucket::new
AggregatesBucket_new(time, origin, brand_id, category_id) ==
    [time |-> time, origin |-> origin, brand_id |-> brand_id,
     category_id |-> category_id]

\* a BatchRead after batch_get: the key and the record found, if any
BatchRead(key) ==
    [key |-> key, record |-> IF key \in DOMAIN store THEN Some(store[key]) ELSE None]

\* DbClient::get_aggregates, the reads it builds: the origin of the query is
\* passed for the brand_id of the bucket as well
batch_reads(q) ==
    LET starts == bucket_starts(q.time_range)
    IN [i \in 1..Len(starts) |->
          BatchRead(StoreKey(q.action,
              AggregatesBucket_new(starts[i], q.origin, q.origin, q.category_id)))]

\* parse_batch_read: the minute at the head of the user key and the row of the
\* record, AggregatesRow::default() when there is none
parse_batch_read(br) ==
    <<br.key[2],
      IF br.record = None THEN [sum_price |-> 0, count |-> 0]
      ELSE [sum_price |-> br.record[1].sum_price, count |-> br.record[1].count]>>

\* rows.sort_by(|x, y| x.0.cmp(&y.0)): a stable sort, the rows of one minute
\* keep their order
sort_by(rows) ==
    CHOOSE s \in Rearrangements(rows) :
        /\ \A i, j \in 1..Len(s) : i < j => s[i][1] <= s[j][1]
        /\ \A i, j \in 1..Len(rows) : (i < j /\ rows[i][1] = rows[j][1]) =>
              \E k, l \in 1..Len(s) : k < l /\ s[k] = rows[i] /\ s[l] = rows[j]

\* AggregatesQuery::make_reply: the rows are as many as the buckets
make_reply(q, rows) ==
    IF Len(rows) = buckets_count(q.time_range)
    THEN [result |-> "ok", query |-> q, rows |-> rows]
    ELSE [result |-> "err", query |-> q, rows |-> <<>>]

\* DbClient::get_aggregates past batch_get, whose results came back as `reads`
get_aggregates(q, reads) ==
    LET rows == sort_by([i \in 1..Len(reads) |-> parse_batch_read(reads[i])])
    IN make_reply(q, [i \in 1..Len(rows) |-> rows[i][2]])

\* time_to_int_aggregate
time_to_int_aggregate(time) == TruncDiv(Timestamp(time), 60)

\* AggregatesCombination::user_key_iter and the reads get_aggregate builds of it
user_key_iter(q) ==
    LET starts == bucket_starts(q.time_range)
    IN [i \in 1..Len(starts) |->
          BatchRead(<<q.action, time_to_int_aggregate(starts[i]), UnwrapOr(q.origin, ""),
                      UnwrapOr(q.brand_id, ""), UnwrapOr(q.category_id, "")>>)]

\* get_record_bins of a read whose record was found: the minute at the end of
\* the user key and the bins that were asked for
get_record_bins(br, has_count, has_sum_price) ==
    <<br.key[2],
      [sum_price |-> Then(has_sum_price, br.record[1].sum_price),
       count |-> Then(has_count, br.record[1].count)]>>

RECURSIVE MergeRows(_, _, _, _, _)
\* the loop of records_to_aggregates_reply over the bucket starts from the i-th
\* on: the next row read if it is of that minute, else the zero row
MergeRows(starts, db_rows, zero, i, db_rows_idx) ==
    IF i > Len(starts) THEN [reply_rows |-> <<>>, db_rows_idx |-> db_rows_idx]
    ELSE LET start_time == time_to_int_aggregate(starts[i])
             hit == db_rows_idx < Len(db_rows) /\ db_rows[db_rows_idx + 1][1] = start_time
             rest == MergeRows(starts, db_rows, zero, i + 1,
                               IF hit THEN db_rows_idx + 1 ELSE db_rows_idx)
         IN [reply_rows |->
                <<IF hit THEN db_rows[db_rows_idx + 1][2] ELSE zero>> \o rest.reply_rows,
             db_rows_idx |-> rest.db_rows_idx]

\* the same without the look at the values of the rows
make_reply_rows_unchecked(q, rows, has_count, has_sum_price) ==
    IF Len(rows) = buckets_count(q.time_range)
    THEN [result |-> "ok", query |-> q, rows |-> rows]
    ELSE [result |-> "err", query |-> q, rows |-> <<>>]

\* AggregatesQuery::make_reply of the API server: as many rows as buckets, each
\* with the aggregates asked for
make_reply_checked(q, rows, has_count, has_sum_price) ==
    IF /\ Len(rows) = buckets_count(q.time_range)
       /\ \A i \in 1..Len(rows) :
            /\ ~has_sum_price \/ rows[i].sum_price # None
            /\ ~has_count \/ rows[i].count # None
    THEN [result |-> "ok", query |-> q, rows |-> rows]
    ELSE [result |-> "err", query |-> q, rows |-> <<>>]

\* records_to_aggregates_reply
records_to_aggregates_reply(records, q) ==
    LET has_count == \E i \in 1..Len(q.aggregates) : q.aggregates[i] = "COUNT"
        has_sum_price == \E i \in 1..Len(q.aggregates) : q.aggregates[i] = "SUM_PRICE"
        found == SelectSeq(records, LAMBDA br : br.record # None)
        db_rows == sort_by([i \in 1..Len(found) |->
                              get_record_bins(found[i], has_count, has_sum_price)])
        merged == MergeRows(bucket_starts(q.time_range), db_rows,
                            [sum_price |-> Then(has_sum_price, 0),
                             count |-> Then(has_count, 0)], 1, 0)
    IN IF merged.db_rows_idx = Len(db_rows)
       THEN make_reply_checked(q, merged.reply_rows, has_count, has_sum_price)
       ELSE [result |-> "err", query |-> q, rows |-> <<>>]

\* AggregatesReply::serialize, its rows: each row zipped with its bucket start
serialize_rows(reply) ==
    LET starts == bucket_starts(reply.query.time_range)
    IN [i \in 1..Min(Len(reply.rows), Len(starts)) |-> <<starts[i], reply.rows[i]>>]

\* SimpleDbClient::get_aggregates past batch_get: the same reads as DbClient's,
\* the rows taken in the order the results came back in
SimpleDbClient_get_aggregates(q, reads) ==
    make_reply(q, [i \in 1..Len(reads) |-> parse_batch_read(reads[i])[2]])

\* GetAggregates of one of the three readers, the one query of a behaviour;
\* batch_get returns its results in any order
GetAggregates(reader, q) ==
    /\ aggregates_reply = NoAggregates
    /\ \E reads \in Rearrangements(IF reader = "ApiServer" THEN user_key_iter(q)
                                   ELSE batch_reads(q)) :
         LET reply == CASE reader = "DbClient" -> get_aggregates(q, reads)
                        [] reader = "SimpleDbClient" ->
                               SimpleDbClient_get_aggregates(q, reads)
                        [] OTHER -> records_to_aggregates_reply(reads, q)
         IN aggregates_reply' =
              [result |-> reply.result, reader |-> reader, query |-> q,
               rows |-> reply.rows, body |-> serialize_rows(reply)]
    /\ UNCHANGED notQry

\* batch_get fails: "could not get aggregates"
GetAggregatesError ==
    /\ aggregates_reply = NoAggregates
    /\ aggregates_reply' = [result |-> "failed"]
    /\ UNCHANGED notQry

\* the implementations of the aggregates read
Readers == {"DbClient", "SimpleDbClient", "ApiServer"}

QryNext ==
    \/ \E reader \in Readers, q \in Queries : GetAggregates(reader, q)
    \/ GetAggregatesError

SpecQuery == QryInit /\ [][QryNext]_vars

(***************************************************************************)
(* Claims about the aggregates query.                                      *)
(***************************************************************************)
\* the record the store holds for the bucket of a query that starts at `start`
RecordFor(q, start) ==
    Lookup(StoreKey(q.action,
        AggregatesBucket_new(start, q.origin, q.brand_id, q.category_id)))

\* C9: for a valid bucket range, bucket_starts yields buckets_count =
\* (to - from) / 1 minute instants, from + i minutes for i = 0..count-1,
\* strictly increasing and all before `to`; the reply is built and has one row
\* per instant, in that order, and no row when from = to.
C9_OneRowPerBucketStart ==
    aggregates_reply.result \in {"ok", "err"} =>
        LET r == aggregates_reply.query.time_range
            starts == bucket_starts(r)
            rows == aggregates_reply.body
        IN /\ buckets_count(r) * Minute = r.to - r.from
           /\ Len(starts) = buckets_count(r)
           /\ \A i \in 1..Len(starts) :
                starts[i] = r.from + (i - 1) * Minute /\ starts[i] < r.to
           /\ \A i, j \in 1..Len(starts) : i < j => starts[i] < starts[j]
           /\ aggregates_reply.result = "ok"
           /\ Len(rows) = Len(starts)
           /\ \A i \in 1..Len(rows) : rows[i][1] = starts[i]
           /\ r.from = r.to => rows = <<>>

\* a reply over the longest range drawn, which does not start at the epoch
C9_Witness ==
    /\ aggregates_reply.result = "ok"
    /\ aggregates_reply.query.time_range.from > 0
    /\ Len(aggregates_reply.body) = MaxSpan - 1
    /\ aggregates_reply.query.time_range.to = MaxSpan * Minute

\* C10: whatever the store holds and whatever order the batch read answers in,
\* row i of the reply carries the count and the sum_price of the record stored
\* for the query's bucket that starts at from + i minutes, and (0, 0) when the
\* store holds none.
C10_RowsOfTheQueriedBuckets ==
    aggregates_reply.result = "ok" =>
        LET q == aggregates_reply.query
            starts == bucket_starts(q.time_range)
            rows == aggregates_reply.rows
        IN /\ Len(rows) = Len(starts)
           /\ \A i \in 1..Len(rows) :
                LET rec == RecordFor(q, starts[i])
                IN IF aggregates_reply.reader # "ApiServer"
                   THEN rows[i].count = rec.count /\ rows[i].sum_price = rec.sum_price
                   ELSE /\ rows[i].count # None => rows[i].count = Some(rec.count)
                        /\ rows[i].sum_price # None => rows[i].sum_price = Some(rec.sum_price)

\* the finest records of the store, one per (minute, origin, brand, category)
\* of the events written, that belong to minute `start` and pass the filters
\* of the query
MatchingRecords(q, start) ==
    {key \in DOMAIN store :
        /\ key[1] = q.action /\ key[2] = MinuteId(start)
        /\ key[3] # "" /\ key[4] # "" /\ key[5] # ""
        /\ q.origin # None => key[3] = q.origin[1]
        /\ q.brand_id # None => key[4] = q.brand_id[1]
        /\ q.category_id # None => key[5] = q.category_id[1]}

\* C11: for a query with action a and any subset of the filters origin,
\* brand_id and category_id, the read addresses for each minute the record
\* that the writer keeps for the events matching the filters: row i reports
\* the count and the price sum of the events of minute from + i that match,
\* and (0, 0) when none does.
C11_RowsOfMatchingEvents ==
    (aggregates_reply.result = "ok" /\ aggregates_reply.reader # "ApiServer") =>
        LET q == aggregates_reply.query
            starts == bucket_starts(q.time_range)
            rows == aggregates_reply.rows
        IN \A i \in 1..Len(rows) :
             LET keys == MatchingRecords(q, starts[i])
             IN /\ rows[i].count = SumOver([k \in keys |-> store[k].count], keys)
                /\ rows[i].sum_price = SumOver([k \in keys |-> store[k].sum_price], keys)

(***************************************************************************)
(* The time range parsers of the API server.                               *)
(*                                                                         *)
(* A range string is the sequence of the chunks split('_') cuts it into,   *)
(* at least one.  A chunk is a datetime text, given by the instant its     *)
(* date and time of day denote, its fraction of a second (none, or the     *)
(* milliseconds after a dot) and its zone suffix (none, or "Z"), or it is  *)
(* some other text.                                                        *)
(***************************************************************************)
\* the most chunks of a range string drawn
MaxChunks == 3

FORMAT_STR_MILLIS == "%Y-%m-%dT%H:%M:%S%.3f"
FORMAT_STR_SECONDS == "%Y-%m-%dT%H:%M:%S"

DateTimeText(time, frac, zone) ==
    [form |-> "datetime", time |-> time, frac |-> frac, zone |-> zone]

\* a text no datetime format matches
OtherText == [form |-> "other", time |-> 0, frac |-> None, zone |-> ""]

\* the instant a datetime text denotes
InstantOf(text) == text.time + UnwrapOr(text.frac, 0)

\* the chunks drawn: on and off the minute, 10 and 11 minutes apart, with
\* and without milliseconds, with and without the "Z" suffix
Texts ==
    {DateTimeText(time, frac, zone) :
        time \in {0, 1000, 10 * Minute, 11 * Minute},
        frac \in {None, Some(1)}, zone \in {"", "Z"}} \cup {OtherText}

RECURSIVE Repeat(_, _)
\* n copies of x
Repeat(x, n) == IF n = 0 THEN <<>> ELSE <<x>> \o Repeat(x, n - 1)

\* the range strings drawn: one chunk, two chunks, and two chunks followed
\* by further datetimes
RangeStrings ==
    {<<a>> : a \in Texts} \cup {<<a, b>> : a, b \in Texts}
    \cup {<<a, b>> \o Repeat(DateTimeText(11 * Minute, None, ""), n) :
            a, b \in Texts, n \in 1..(MaxChunks - 2)}

\* NaiveDateTime::parse_from_str: the whole text has to match the format; the
\* fraction of %.3f may be missing, and neither format takes a zone
parse_from_str(v, format_str) ==
    IF v.form # "datetime" \/ v.zone # "" THEN None
    ELSE IF format_str = FORMAT_STR_SECONDS
         THEN (IF v.frac = None THEN Some(InstantOf(v)) ELSE None)
         ELSE Some(InstantOf(v))

\* DateTime::parse_from_rfc3339(v).with_timezone(&Utc): the offset is
\* required, the fraction is not
parse_from_rfc3339(v) ==
    IF v.form = "datetime" /\ v.zone = "Z" THEN Some(InstantOf(v)) ELSE None

Ok(value) == [fn |-> "visit_str", result |-> "ok", value |-> value]
Err == [fn |-> "visit_str", result |-> "err", value |-> None]

\* the same without the bound on the span of a bucket range
visit_str_any_span(BUCKETS, v) ==
    LET format_str == IF BUCKETS THEN FORMAT_STR_SECONDS ELSE FORMAT_STR_MILLIS
        from == parse_from_str(v[1], format_str)
        to == parse_from_str(v[2], format_str)
    IN IF from = None THEN Err
       ELSE IF Len(v) < 2 THEN Err
       ELSE IF to = None THEN Err
       ELSE IF Len(v) > 2 \/ from[1] > to[1] THEN Err
       ELSE IF BUCKETS /\ (second(from[1]) # 0 \/ second(to[1]) # 0) THEN Err
       ELSE Ok([from |-> from[1], to |-> to[1]])

\* TimeRangeVisitor<BUCKETS>::visit_str
visit_str(BUCKETS, v) ==
    LET format_str == IF BUCKETS THEN FORMAT_STR_SECONDS ELSE FORMAT_STR_MILLIS
        from == parse_from_str(v[1], format_str)
        to == parse_from_str(v[2], format_str)
    IN IF from = None THEN Err
       ELSE IF Len(v) < 2 THEN Err
       ELSE IF to = None THEN Err
       ELSE IF Len(v) > 2 \/ from[1] > to[1] THEN Err
       ELSE IF BUCKETS /\ (second(from[1]) # 0 \/ second(to[1]) # 0
                            \/ (to[1] - from[1]) > 10 * Minute) THEN Err
       ELSE Ok([from |-> from[1], to |-> to[1]])

\* the visit_str of the TimeRange of UserProfilesQuery
TimeRange_visit_str(v) ==
    LET from == parse_from_rfc3339(v[1])
        to == parse_from_rfc3339(v[2])
    IN IF from = None THEN Err
       ELSE IF Len(v) < 2 THEN Err
       ELSE IF to = None THEN Err
       ELSE IF Len(v) > 2 \/ from[1] > to[1] THEN Err
       ELSE Ok([from |-> from[1], to |-> to[1]])

\* the range types
RangeTypes == {"BucketsRange", "SimpleTimeRange", "TimeRange"}

TimeRangeInit ==
    /\ args \in [fn : {"visit_str"}, type : RangeTypes, v : RangeStrings]
    /\ ret = NotCalled
    /\ CasIdle /\ EngIdle /\ ProIdle /\ QryIdle /\ QueIdle /\ AppIdle

\* TimeRange<BUCKETS>::deserialize
Deserialize ==
    /\ ret = NotCalled
    /\ args.type \in {"BucketsRange", "SimpleTimeRange"}
    /\ ret' = visit_str(args.type = "BucketsRange", args.v)
    /\ UNCHANGED <<args, notFn>>

\* TimeRange::deserialize of UserProfilesQuery
TimeRangeDeserialize ==
    /\ ret = NotCalled
    /\ args.type = "TimeRange"
    /\ ret' = TimeRange_visit_str(args.v)
    /\ UNCHANGED <<args, notFn>>

TimeRangeNext == Deserialize \/ TimeRangeDeserialize

SpecTimeRange == TimeRangeInit /\ [][TimeRangeNext]_vars

\* a datetime of the form the API takes, with seconds or with milliseconds
IsPlain(text) == text.form = "datetime" /\ text.zone = ""

\* C12: parsing a bucket range succeeds if and only if the string is exactly
\* two second-precision datetimes with from <= to, both on the minute and at
\* most 10 minutes apart, and then yields these two instants; non-zero
\* seconds, inverted endpoints, a longer span, milliseconds and a third
\* datetime are rejected, from = to is accepted.
C12_BucketsRangeParsed ==
    (ret # NotCalled /\ args.type = "BucketsRange") =>
        LET v == args.v
            accepted ==
                /\ Len(v) = 2
                /\ \A i \in 1..2 : IsPlain(v[i]) /\ v[i].frac = None
                /\ v[1].time <= v[2].time
                /\ v[1].time % Minute = 0 /\ v[2].time % Minute = 0
                /\ v[2].time - v[1].time <= 10 * Minute
        IN /\ ret.result = "ok" <=> accepted
           /\ accepted => ret.value = [from |-> v[1].time, to |-> v[2].time]

\* an accepted bucket range with from = to, and one of 10 minutes
C12_Witness ==
    /\ ret # NotCalled /\ args.type = "BucketsRange" /\ ret.result = "ok"
    /\ ret.value.from = ret.value.to \/ ret.value.to - ret.value.from = 10 * Minute

\* C13: parsing a profile time range accepts two endpoints given with
\* milliseconds and two given with seconds, accepts from = to, and rejects
\* from > to and a string of more than two datetimes.
C13_SimpleRangeParsed ==
    (ret # NotCalled /\ args.type # "BucketsRange") =>
        LET v == args.v
        IN /\ (/\ Len(v) = 2 /\ IsPlain(v[1]) /\ IsPlain(v[2])
               /\ InstantOf(v[1]) <= InstantOf(v[2]))
                  => ret = Ok([from |-> InstantOf(v[1]), to |-> InstantOf(v[2])])
           /\ (/\ Len(v) = 2 /\ v[1].form = "datetime" /\ v[2].form = "datetime"
               /\ InstantOf(v[1]) > InstantOf(v[2])) => ret.result = "err"
           /\ Len(v) > 2 => ret.result = "err"

(***************************************************************************)
(* The parameters of the aggregates endpoint.                              *)
(*                                                                         *)
(* A parameter value is a string; the value of a time range is given by    *)
(* its chunks, every other value by its text.                              *)
(***************************************************************************)
\* the most parameters drawn after the leading ones
MaxPairs == 3

StringValue(text) == [text |-> text, chunks |-> <<>>]
RangeValue(chunks) == [text |-> "", chunks |-> chunks]

\* the chunks split('_') cuts a value into
ChunksOf(value) == IF value.chunks = <<>> THEN <<OtherText>> ELSE value.chunks

Pair(key, value) == [key |-> key, value |-> value]

\* a bucket range of one minute, and one of 11 minutes
GoodRange == <<DateTimeText(0, None, ""), DateTimeText(Minute, None, "")>>
LongRange == <<DateTimeText(0, None, ""), DateTimeText(11 * Minute, None, "")>>

\* the parameters drawn
Pairs ==
    {Pair("time_range", RangeValue(GoodRange)),
     Pair("time_range", RangeValue(LongRange)),
     Pair("action", StringValue("VIEW")), Pair("action", StringValue("CLICK")),
     Pair("origin", StringValue("EU")), Pair("brand_id", StringValue("B1")),
     Pair("category_id", StringValue("C1")),
     Pair("aggregates", StringValue("COUNT")),
     Pair("aggregates", StringValue("SUM_PRICE")),
     Pair("aggregates", StringValue("AVG")),
     Pair("limit", StringValue("1"))}

RECURSIVE SeqsUpTo(_, _)
\* the sequences over S of length at most n
SeqsUpTo(S, n) ==
    IF n = 0 THEN {<<>>}
    ELSE LET shorter == SeqsUpTo(S, n - 1)
         IN shorter \cup {Append(q, x) : q \in shorter, x \in S}

\* the parameter lists drawn: up to MaxPairs parameters, alone or after a
\* time range and an action
PairLists ==
    {lead \o rest :
        lead \in {<<>>, <<Pair("time_range", RangeValue(GoodRange)),
                         Pair("action", StringValue("VIEW"))>>},
        rest \in SeqsUpTo(Pairs, MaxPairs)}

\* serde_json::from_value for a BucketsRange
from_value_BucketsRange(value) ==
    LET r == visit_str(TRUE, ChunksOf(value))
    IN IF r.result = "ok" THEN Some(r.value) ELSE None

\* serde_json::from_value for an Action
from_value_Action(value) ==
    IF value.text \in {"VIEW", "BUY"} THEN Some(value.text) ELSE None

\* serde_json::from_value for an Aggregate
from_value_Aggregate(value) ==
    IF value.text \in {"COUNT", "SUM_PRICE"} THEN Some(value.text) ELSE None

\* serde_json::from_value for a String
from_value_String(value) == Some(value.text)

Contains(seq, x) == \E i \in 1..Len(seq) : seq[i] = x

\* the same without the test for a repeated aggregate
push_repeated(aggregates, aggregate) == Some(Append(aggregates, aggregate))

\* the "aggregates" arm past the parsing of the value
push(aggregates, aggregate) ==
    IF Contains(aggregates, aggregate) THEN None
    ELSE Some(Append(aggregates, aggregate))

RECURSIVE from_pairs_loop(_, _, _)
\* AggregatesQuery::from_pairs from pair i on, with the locals in `q`
from_pairs_loop(pairs, i, q) ==
    IF i > Len(pairs)
    THEN IF q.aggregates = <<>> \/ q.time_range = None \/ q.action = None THEN None
         ELSE Some([time_range |-> q.time_range[1], action |-> q.action[1],
                    origin |-> q.origin, brand_id |-> q.brand_id,
                    category_id |-> q.category_id, aggregates |-> q.aggregates])
    ELSE LET key == pairs[i].key
             value == pairs[i].value
         IN IF key = "time_range" /\ q.time_range = None
            THEN LET r == from_value_BucketsRange(value)
                 IN IF r = None THEN None
                    ELSE from_pairs_loop(pairs, i + 1, [q EXCEPT !.time_range = r])
            ELSE IF key = "action" /\ q.action = None
            THEN LET r == from_value_Action(value)
                 IN IF r = None THEN None
                    ELSE from_pairs_loop(pairs, i + 1, [q EXCEPT !.action = r])
            ELSE IF key = "origin" /\ q.origin = None
            THEN from_pairs_loop(pairs, i + 1,
                                 [q EXCEPT !.origin = from_value_String(value)])
            ELSE IF key = "brand_id" /\ q.brand_id = None
            THEN from_pairs_loop(pairs, i + 1,
                                 [q EXCEPT !.brand_id = from_value_String(value)])
            ELSE IF key = "category_id" /\ q.category_id = None
            THEN from_pairs_loop(pairs, i + 1,
                                 [q EXCEPT !.category_id = from_value_String(value)])
            ELSE IF key = "aggregates" /\ Len(q.aggregates) < 2
            THEN LET r == from_value_Aggregate(value)
                     pushed == push(q.aggregates, r[1])
                 IN IF r = None \/ pushed = None THEN None
                    ELSE from_pairs_loop(pairs, i + 1,
                                         [q EXCEPT !.aggregates = pushed[1]])
            ELSE None

\* AggregatesQuery::from_pairs
from_pairs(pairs) ==
    from_pairs_loop(pairs, 1,
        [time_range |-> None, action |-> None, origin |-> None,
         brand_id |-> None, category_id |-> None, aggregates |-> <<>>])

FromPairsInit ==
    /\ args \in [fn : {"from_pairs"}, pairs : PairLists]
    /\ ret = NotCalled
    /\ CasIdle /\ EngIdle /\ ProIdle /\ QryIdle /\ QueIdle /\ AppIdle

\* ApiServer::get_aggregates: 400 without a read when from_pairs yields
\* nothing, else 200 or 500 by the outcome of App::get_aggregates
ApiServer_get_aggregates ==
    /\ ret = NotCalled
    /\ LET query == from_pairs(args.pairs)
       IN IF query = None
          THEN ret' = [fn |-> "get_aggregates", status |-> 400, query |-> None,
                       read |-> FALSE]
          ELSE \E ok \in BOOLEAN :
                 ret' = [fn |-> "get_aggregates",
                         status |-> IF ok THEN 200 ELSE 500,
                         query |-> query, read |-> TRUE]
    /\ UNCHANGED <<args, notFn>>

SpecFromPairs == FromPairsInit /\ [][ApiServer_get_aggregates]_vars

\* the positions of the parameters named `key`
Positions(pairs, key) == {i \in 1..Len(pairs) : pairs[i].key = key}

\* the value parses as its key requires
Parsable(pair) ==
    CASE pair.key = "time_range" ->
             LET v == pair.value.chunks
             IN /\ Len(v) = 2
                /\ \A i \in 1..2 : IsPlain(v[i]) /\ v[i].frac = None
                /\ IsBucketsRange(v[1].time, v[2].time)
      [] pair.key = "action" -> pair.value.text \in {"VIEW", "BUY"}
      [] pair.key = "aggregates" -> pair.value.text \in {"COUNT", "SUM_PRICE"}
      [] OTHER -> TRUE

\* the parameter list the endpoint takes
WellFormed(pairs) ==
    /\ \A i \in 1..Len(pairs) :
         /\ pairs[i].key \in {"time_range", "action", "origin", "brand_id",
                              "category_id", "aggregates"}
         /\ Parsable(pairs[i])
    /\ \A key \in {"origin", "brand_id", "category_id"} :
         Cardinality(Positions(pairs, key)) <= 1
    /\ Cardinality(Positions(pairs, "time_range")) = 1
    /\ Cardinality(Positions(pairs, "action")) = 1
    /\ Cardinality(Positions(pairs, "aggregates")) \in {1, 2}
    /\ \A i, j \in Positions(pairs, "aggregates") :
         i # j => pairs[i].value # pairs[j].value

\* C14: the aggregates endpoint answers 400, and reads nothing, exactly for
\* the parameter lists that hold an unknown key, a second time_range, action,
\* origin, brand_id or category_id, a repeated or a third aggregate or a value
\* that does not parse, or that lack time_range, action or an aggregate; every
\* other list yields a query whose aggregates are in the order of the request.
C14_FromPairsRejects ==
    (ret # NotCalled /\ args.fn = "from_pairs") =>
        LET pairs == args.pairs
            requested == SelectSeq(pairs, LAMBDA pair : pair.key = "aggregates")
        IN /\ ret.status = 400 <=> ~WellFormed(pairs)
           /\ ret.status = 400 => ~ret.read
           /\ WellFormed(pairs) =>
                /\ ret.read
                /\ ret.query[1].aggregates =
                     [i \in 1..Len(requested) |-> requested[i].value.text]

\* an accepted list that names SUM_PRICE before COUNT after a filter
C14_Witness ==
    /\ ret # NotCalled /\ args.fn = "from_pairs" /\ ret.status = 200
    /\ ret.query[1].aggregates = <<"SUM_PRICE", "COUNT">>
    /\ ret.query[1].origin # None

(***************************************************************************)
(* The reply of the aggregates endpoint: make_reply and the serialization  *)
(* of what it built, in the API server (rows of optional values) and in    *)
(* the database crate (rows of plain values).                              *)
(***************************************************************************)
\* the most rows handed to make_reply, and the longest range in minutes
MaxRows == 2

\* the queries replied to
ReplyQueries ==
    [time_range : {[from |-> 0, to |-> k * Minute] : k \in 0..MaxRows},
     action : {"VIEW"},
     origin : {None, Some("EU")}, brand_id : {None, Some("B1")},
     category_id : {None, Some("C1")},
     aggregates : {<<"COUNT">>, <<"SUM_PRICE">>, <<"COUNT", "SUM_PRICE">>,
                   <<"SUM_PRICE", "COUNT">>}]

\* AggregatesRow of the API server and of the database crate
OptionRows == [sum_price : {None, Some(7)}, count : {None, Some(1)}]
PlainRows == {[sum_price |-> 7, count |-> 1], [sum_price |-> 0, count |-> 0]}

\* DateTime::format(FORMAT_STR_SECONDS): the text of the whole second
format(time) == DateTimeText(time - (time % 1000), None, "")

\* usize::to_string
to_string(n) == [decimal |-> n]

\* Action::to_string and Aggregate::to_string
Display(name) == name

\* the column name the database crate gives an aggregate
aggr_str(aggr) == IF aggr = "COUNT" THEN "count" ELSE "sum_price"

\* Option::unwrap of a field of a row of the API server; a plain field as it is
unwrap(crate, field) == IF crate = "api_server" THEN field[1] ELSE field

\* the dimension columns or values of a reply: the filters the query has
Dimensions(q, names) ==
    (IF q.origin # None THEN <<IF names THEN "origin" ELSE q.origin[1]>> ELSE <<>>)
    \o (IF q.brand_id # None THEN <<IF names THEN "brand_id" ELSE q.brand_id[1]>>
        ELSE <<>>)
    \o (IF q.category_id # None
        THEN <<IF names THEN "category_id" ELSE q.category_id[1]>> ELSE <<>>)

\* AggregatesReply::serialize: the columns, the rows, and whether an unwrap
\* met a missing value
serialize(crate, reply) ==
    LET q == reply.query
        starts == bucket_starts(q.time_range)
        n == Min(Len(reply.rows), Len(starts))
        missing ==
            crate = "api_server" /\
            \E i \in 1..n, j \in 1..Len(q.aggregates) :
                IF q.aggregates[j] = "COUNT" THEN reply.rows[i].count = None
                ELSE reply.rows[i].sum_price = None
        columns ==
            <<"1m_bucket", "action">> \o Dimensions(q, TRUE)
            \o [j \in 1..Len(q.aggregates) |->
                  IF crate = "api_server" THEN Display(q.aggregates[j])
                  ELSE aggr_str(q.aggregates[j])]
        values(i) ==
            <<format(starts[i]), Display(q.action)>> \o Dimensions(q, FALSE)
            \o [j \in 1..Len(q.aggregates) |->
                  IF q.aggregates[j] = "COUNT"
                  THEN to_string(unwrap(crate, reply.rows[i].count))
                  ELSE to_string(unwrap(crate, reply.rows[i].sum_price))]
    IN IF missing THEN [panicked |-> TRUE, columns |-> <<>>, rows |-> <<>>]
       ELSE [panicked |-> FALSE, columns |-> columns,
             rows |-> [i \in 1..n |-> values(i)]]

\* AggregatesQuery::make_reply of either crate
AggregatesQuery_make_reply(crate, q, rows) ==
    IF crate = "api_server"
    THEN make_reply_checked(q, rows, Contains(q.aggregates, "COUNT"),
                            Contains(q.aggregates, "SUM_PRICE"))
    ELSE make_reply(q, rows)

MakeReplyInit ==
    /\ \/ args \in [fn : {"make_reply"}, crate : {"api_server"},
                    query : ReplyQueries, rows : SeqsUpTo(OptionRows, MaxRows)]
       \/ args \in [fn : {"make_reply"}, crate : {"database"},
                    query : ReplyQueries, rows : SeqsUpTo(PlainRows, MaxRows)]
    /\ ret = NotCalled
    /\ CasIdle /\ EngIdle /\ ProIdle /\ QryIdle /\ QueIdle /\ AppIdle

\* make_reply on the rows read and, when it succeeds, warp::reply::json of the reply
MakeReply ==
    /\ ret = NotCalled
    /\ LET reply == AggregatesQuery_make_reply(args.crate, args.query, args.rows)
       IN ret' = [fn |-> "make_reply", result |-> reply.result,
                  body |-> IF reply.result = "ok" THEN Some(serialize(args.crate, reply))
                           ELSE None]
    /\ UNCHANGED <<args, notFn>>

SpecMakeReply == MakeReplyInit /\ [][MakeReply]_vars

\* the row holds a value for the aggregate
Carries(crate, row, aggr) ==
    crate = "api_server" =>
        IF aggr = "COUNT" THEN row.count # None ELSE row.sum_price # None

\* C15: make_reply succeeds if and only if the rows are as many as the
\* buckets of the query's range and every row carries a value for each
\* aggregate requested; serializing the reply it built meets no missing value.
C15_MakeReplyChecksRows ==
    (ret # NotCalled /\ args.fn = "make_reply") =>
        LET q == args.query
            rows == args.rows
        IN /\ ret.result = "ok" <=>
                /\ Len(rows) * Minute = q.time_range.to - q.time_range.from
                /\ \A i \in 1..Len(rows), j \in 1..Len(q.aggregates) :
                     Carries(args.crate, rows[i], q.aggregates[j])
           /\ ret.result = "ok" => ~ret.body[1].panicked

\* a reply of the API server built from rows that lack the aggregate not
\* requested, and a refusal of rows that lack the one requested
C15_Witness ==
    /\ ret # NotCalled /\ args.fn = "make_reply" /\ args.crate = "api_server"
    /\ Len(args.rows) = MaxRows
    /\ \/ /\ ret.result = "ok" /\ args.query.aggregates = <<"COUNT">>
          /\ \A i \in 1..Len(args.rows) : args.rows[i].sum_price = None
       \/ /\ ret.result = "err"
          /\ Len(args.rows) * Minute = args.query.time_range.to
          /\ \E i \in 1..Len(args.rows) : args.rows[i].count = None

\* C16: in every reply the columns are 1m_bucket, action, then origin,
\* brand_id and category_id, each present exactly when the query has the
\* filter, then the requested aggregates under their names COUNT and
\* SUM_PRICE in request order; every row is as long as the columns and holds
\* the bucket start, the action, the filter values and the aggregate values
\* in that order.
C16_ColumnsAndRows ==
    (ret # NotCalled /\ args.fn = "make_reply" /\ ret.result = "ok") =>
        LET q == args.query
            body == ret.body[1]
            dims == <<"origin", "brand_id", "category_id">>
            filters == <<q.origin, q.brand_id, q.category_id>>
            present == SelectSeq(<<1, 2, 3>>, LAMBDA d : filters[d] # None)
            k == Len(present)
        IN /\ Len(body.columns) = 2 + k + Len(q.aggregates)
           /\ body.columns[1] = "1m_bucket" /\ body.columns[2] = "action"
           /\ \A d \in 1..k : body.columns[2 + d] = dims[present[d]]
           /\ \A j \in 1..Len(q.aggregates) :
                body.columns[2 + k + j] = q.aggregates[j]
           /\ Len(body.rows) = Len(args.rows)
           /\ \A i \in 1..Len(body.rows) :
                /\ Len(body.rows[i]) = Len(body.columns)
                /\ body.rows[i][1] =
                     DateTimeText(q.time_range.from + (i - 1) * Minute, None, "")
                /\ body.rows[i][2] = q.action
                /\ \A d \in 1..k : body.rows[i][2 + d] = filters[present[d]][1]
                /\ \A j \in 1..Len(q.aggregates) :
                     body.rows[i][2 + k + j] =
                        to_string(unwrap(args.crate,
                            IF q.aggregates[j] = "COUNT" THEN args.rows[i].count
                            ELSE args.rows[i].sum_price))

(***************************************************************************)
(* The event queue: the ingest handler and the producer, the topic, and    *)
(* one consumer of one group (EventStream::consume, TagStream::consume).   *)
(*                                                                         *)
(* A record of the topic is a key and a payload.  An offset stored or      *)
(* committed for a partition is the offset of the next message to read.    *)
(***************************************************************************)
\* the POST /user_tags requests of one behaviour
MaxProduced == 2
\* the messages one behaviour processes, redeliveries included
MaxProcessed == 2

Partitions == {0, 1}

\* the events posted: two of one cookie
QueueTags ==
    {Tag(1000, "c1", "VIEW", "EU", "B1", "C1", 5),
     Tag(2000, "c1", "BUY", "EU", "B1", "C1", 7)}

\* serde_json::to_vec
to_vec(event) == [format |-> "json", event |-> event]

\* a payload that is no event, written to the topic by another producer
OtherPayload == [format |-> "other", event |-> Tag(0, "", "", "", "", "", 0)]

\* serde_json::from_slice
from_slice(payload) == IF payload.format = "json" THEN Some(payload.event) ELSE None

\* the FutureRecord that produce builds
FutureRecord(event) == [key |-> None, payload |-> to_vec(event)]

Zeros == [p \in Partitions |-> 0]

Consuming == [state |-> "consuming"]

QueueInit ==
    /\ topic = [p \in Partitions |-> <<>>]
    /\ requests = <<>>
    /\ consumer = Consuming
    /\ position = Zeros /\ stored_offset = Zeros /\ committed = Zeros
    /\ processed = <<>>
    /\ CasIdle /\ EngIdle /\ ProIdle /\ QryIdle /\ FnIdle /\ AppIdle

\* the same answering 204 whatever send_tag returned
user_tags_always_204(result) == 204

\* the user_tags filter: the status answered for what send_tag returned
user_tags(result) == IF result = "ok" THEN 204 ELSE 500

\* POST /user_tags, produce succeeds: the record is in a partition the
\* partitioner chose, which for a record without key is any
UserTagsOk(tag) ==
    /\ Len(requests) < MaxProduced
    /\ \E p \in Partitions :
         topic' = [topic EXCEPT ![p] = Append(@, FutureRecord(tag))]
    /\ requests' = Append(requests,
                          [tag |-> tag, produce |-> "ok", status |-> user_tags("ok")])
    /\ UNCHANGED <<consumer, position, stored_offset, committed, processed, notQue>>

\* POST /user_tags, produce fails: the queue stayed full for the enqueue
\* timeout, or the delivery was not acknowledged in time
UserTagsErr(tag) ==
    /\ Len(requests) < MaxProduced
    /\ \/ UNCHANGED topic
       \/ \E p \in Partitions :
            topic' = [topic EXCEPT ![p] = Append(@, FutureRecord(tag))]
    /\ requests' = Append(requests,
                          [tag |-> tag, produce |-> "err", status |-> user_tags("err")])
    /\ UNCHANGED <<consumer, position, stored_offset, committed, processed, notQue>>

\* a record that is no event reaches the topic
OtherProduce ==
    /\ Len(requests) < MaxProduced
    /\ \A p \in Partitions : \A i \in 1..Len(topic[p]) : topic[p][i].payload # OtherPayload
    /\ \E p \in Partitions :
         topic' = [topic EXCEPT ![p] = Append(@, [key |-> None, payload |-> OtherPayload])]
    /\ UNCHANGED <<requests, consumer, position, stored_offset, committed, processed,
                   notQue>>

\* the stream has a message of partition p to deliver
Ready(p) == consumer = Consuming /\ position[p] < Len(topic[p])

\* the message the stream delivers next from partition p
Msg(p) == topic[p][position[p] + 1]

Failed(p, cause) ==
    [state |-> "failed", partition |-> p, offset |-> position[p], cause |-> cause,
     processed |-> Len(processed)]

\* consume: the payload does not deserialize, consume returns the error
DeserializeFailed(p) ==
    /\ Ready(p)
    /\ from_slice(Msg(p).payload) = None
    /\ consumer' = Failed(p, "deserialize")
    /\ position' = [position EXCEPT ![p] = @ + 1]
    /\ UNCHANGED <<topic, requests, stored_offset, committed, processed, notQue>>

\* the same storing the offset of the message the processor failed on
ProcessFailedStored(p) ==
    /\ Ready(p)
    /\ from_slice(Msg(p).payload) # None
    /\ consumer' = Failed(p, "process")
    /\ position' = [position EXCEPT ![p] = @ + 1]
    /\ stored_offset' = [stored_offset EXCEPT ![p] = position[p] + 1]
    /\ UNCHANGED <<topic, requests, committed, processed, notQue>>

\* consume: the processor returns an error, consume returns it
ProcessFailed(p) ==
    /\ Ready(p)
    /\ from_slice(Msg(p).payload) # None
    /\ consumer' = Failed(p, "process")
    /\ position' = [position EXCEPT ![p] = @ + 1]
    /\ UNCHANGED <<topic, requests, stored_offset, committed, processed, notQue>>

\* consume: the processor returns success and the offset is stored
Processed(p) ==
    /\ Ready(p)
    /\ Len(processed) < MaxProcessed
    /\ from_slice(Msg(p).payload) # None
    /\ processed' = Append(processed,
                           [partition |-> p, offset |-> position[p],
                            event |-> from_slice(Msg(p).payload)[1]])
    /\ stored_offset' = [stored_offset EXCEPT ![p] = position[p] + 1]
    /\ position' = [position EXCEPT ![p] = @ + 1]
    /\ UNCHANGED <<topic, requests, consumer, committed, notQue>>

\* consume: the processor returns success, store_offset_from_message fails
StoreFailed(p) ==
    /\ Ready(p)
    /\ Len(processed) < MaxProcessed
    /\ from_slice(Msg(p).payload) # None
    /\ processed' = Append(processed,
                           [partition |-> p, offset |-> position[p],
                            event |-> from_slice(Msg(p).payload)[1]])
    /\ consumer' = [Failed(p, "store") EXCEPT !.processed = Len(processed) + 1]
    /\ position' = [position EXCEPT ![p] = @ + 1]
    /\ UNCHANGED <<topic, requests, stored_offset, committed, notQue>>

\* consume: the stream yields an error instead of a message
ReceiveFailed ==
    /\ consumer = Consuming
    /\ consumer' = [state |-> "failed", partition |-> 0, offset |-> 0,
                    cause |-> "receive", processed |-> Len(processed)]
    /\ UNCHANGED <<topic, requests, position, stored_offset, committed, processed,
                   notQue>>

\* EventStream::consume: stop changed to true, or its sender is gone
StopConsume ==
    /\ consumer = Consuming
    /\ consumer' = [state |-> "stopped"]
    /\ UNCHANGED <<topic, requests, position, stored_offset, committed, processed,
                   notQue>>

\* enable.auto.commit: the offsets stored are committed
AutoCommit ==
    /\ committed # stored_offset
    /\ committed' = stored_offset
    /\ UNCHANGED <<topic, requests, consumer, position, stored_offset, processed,
                   notQue>>

\* the consumer is started again and resumes from the committed offsets
Restart ==
    /\ consumer.state # "consuming"
    /\ consumer' = Consuming
    /\ position' = committed
    /\ stored_offset' = committed
    /\ UNCHANGED <<topic, requests, committed, processed, notQue>>

QueueNext ==
    \/ \E tag \in QueueTags : UserTagsOk(tag) \/ UserTagsErr(tag)
    \/ OtherProduce
    \/ \E p \in Partitions :
         \/ DeserializeFailed(p)
         \/ ProcessFailed(p)
         \/ Processed(p)
         \/ StoreFailed(p)
    \/ ReceiveFailed
    \/ StopConsume
    \/ AutoCommit
    \/ Restart

SpecQueue == QueueInit /\ [][QueueNext]_vars

\* the records of the topic that carry the event
RecordsOf(tag) ==
    UNION {{<<p, i>> : i \in {j \in 1..Len(topic[p]) :
                                  topic[p][j].payload = to_vec(tag)}} :
           p \in Partitions}

\* C17: POST /user_tags answers 204 only when the produce call returned
\* success, the event then being in the topic, and 500 whenever it failed: no
\* event is acknowledged without having been handed over, and no failure is
\* answered 204.
C17_StatusFollowsProduce ==
    /\ \A i \in 1..Len(requests) :
         /\ requests[i].status \in {204, 500}
         /\ requests[i].status = 204 => requests[i].produce = "ok"
         /\ requests[i].produce = "err" => requests[i].status = 500
    /\ \A tag \in QueueTags :
         Cardinality({i \in 1..Len(requests) :
                         requests[i].tag = tag /\ requests[i].status = 204})
            <= Cardinality(RecordsOf(tag))

\* one request acknowledged and one refused
C17_Witness ==
    \E i, j \in 1..Len(requests) :
        requests[i].status = 204 /\ requests[j].status = 500

\* C18: every record produce enqueues carries the cookie of its event as
\* key, and all events of one cookie are in one partition, where they are
\* consumed in the order they were produced in.
C18_KeyedByCookie ==
    /\ \A p \in Partitions : \A i \in 1..Len(topic[p]) :
         LET event == from_slice(topic[p][i].payload)
         IN event # None => topic[p][i].key = Some(event[1].cookie)
    /\ \A p, q \in Partitions : \A i \in 1..Len(topic[p]), j \in 1..Len(topic[q]) :
         LET e == from_slice(topic[p][i].payload)
             f == from_slice(topic[q][j].payload)
         IN (e # None /\ f # None /\ e[1].cookie = f[1].cookie) => p = q

\* C19: an offset is stored, and so committed, only for messages the
\* processor returned success for; when the deserialization or the
\* processing of a message fails, consume returns, the offset of the message
\* is not stored, nothing more is processed, and a consumer started again
\* resumes at or before the message.
C19_OffsetStoredAfterSuccess ==
    /\ \A p \in Partitions :
         /\ committed[p] <= stored_offset[p]
         /\ \A offset \in 0..(stored_offset[p] - 1) :
              \E k \in 1..Len(processed) :
                  processed[k].partition = p /\ processed[k].offset = offset
    /\ (consumer.state = "failed" /\ consumer.cause \in {"deserialize", "process"}) =>
         /\ stored_offset[consumer.partition] <= consumer.offset
         /\ committed[consumer.partition] <= consumer.offset
         /\ Len(processed) = consumer.processed

\* consume failed on the second message of a partition, in the processor or
\* in the deserialization, the first one processed and stored
C19_Witness ==
    /\ consumer.state = "failed" /\ consumer.cause \in {"deserialize", "process"}
    /\ consumer.offset = 1 /\ stored_offset[consumer.partition] = 1

(***************************************************************************)
(* Claims about the stop branch of the aggregation engine.                 *)
(***************************************************************************)
\* C20: when the stop value changes to true, or its sender is dropped, while
\* the engine waits in its loop, run returns without an update of the store
\* for the pending accumulators and without marking a pending offset, and
\* nothing is written or marked afterwards; a change of the stop value to
\* false leaves the engine running.
C20_StopSkipsFlush ==
    [][/\ Stop =>
            /\ engine' = "stopped"
            /\ store' = store /\ written' = written /\ marked' = marked
            /\ to_store' = to_store /\ to_mark' = to_mark
       /\ StopChangedToFalse => engine' = "running"
       /\ engine = "stopped" =>
            engine' = "stopped" /\ store' = store /\ marked' = marked]_vars

\* the engine stopped with an accumulator not written and an offset not marked
C20_Witness ==
    /\ engine = "stopped"
    /\ DOMAIN to_store # {} /\ DOMAIN to_mark # {}
    /\ \E s \in DOMAIN to_mark : s \notin DOMAIN marked \/ marked[s] < to_mark[s]

(***************************************************************************)
(* RetryingClient: the four operations of DbClient over a SimpleDbClient,  *)
(* the two updates run under backoff::future::retry.                       *)
(*                                                                         *)
(* update_aggregate and get_aggregates act on the record of one key, which *)
(* may hold a count that is no usize; of the two profile operations only   *)
(* the outcome of each call of the inner client is modelled.               *)
(***************************************************************************)
\* concurrent calls of RetryingClient
NumRetrying == 2
\* the calls of the inner client one call makes before the backoff is spent
MaxAttempts == 2

Retrying == 1..NumRetrying

\* the operations of the calls of one behaviour: the calls run concurrently and
\* are told apart by their operations only, so they are numbered in this order
RetryingOperations ==
    <<"get_user_profile", "update_user_profile", "get_aggregates", "update_aggregate">>

\* a record whose count bin holds a negative integer: usize::try_from fails
MalformedRecord == [present |-> TRUE, count |-> -1, sum_price |-> 7, generation |-> 2]

\* SimpleDbClient::parse_aggregate of both bins succeeds
Parses(rec) == rec.count >= 0 /\ rec.sum_price >= 0

\* a call of RetryingClient: the operation, where it stands, the calls of the
\* inner client it has made and the error the last one returned, the locals of
\* the attempt under way, how often the store applied its write, and its result
NewRetrying(op) ==
    [op |-> op, pc |-> "call", count |-> 1, sum_price |-> 10,
     attempts |-> 0, error |-> "none",
     old_count |-> 0, old_sum_price |-> 0, generation |-> 0,
     applied |-> 0, result |-> "none"]

RetryInit ==
    /\ EngIdle /\ ProIdle /\ QryIdle /\ FnIdle /\ QueIdle /\ AppIdle
    /\ record \in InitialRecords \cup {MalformedRecord}
    /\ before = <<record.count, record.sum_price>>
    /\ client = "RetryingClient"
    /\ calls \in {[i \in Retrying |-> NewRetrying(RetryingOperations[w[i]])] :
                     w \in {v \in [Retrying -> 1..Len(RetryingOperations)] :
                              \A i, j \in Retrying : i < j => v[i] <= v[j]}}

\* the call of the inner client has returned Ok: so does the operation
InnerOk(c) ==
    [c EXCEPT !.pc = "done", !.result = "ok", !.error = "none",
              !.old_count = 0, !.old_sum_price = 0, !.generation = 0]

\* the call of the inner client failed in an update: backoff::Error::transient
Transient(c, error) ==
    [c EXCEPT !.pc = "backoff", !.error = error,
              !.old_count = 0, !.old_sum_price = 0, !.generation = 0]

\* the call of the inner client failed in a read: the error is returned
InnerErr(c, error) ==
    [c EXCEPT !.pc = "done", !.error = error, !.result = error]

\* the same with the read under retry
GetUserProfileInnerRetried(i) ==
    /\ calls[i].op = "get_user_profile" /\ calls[i].pc \in {"call"}
    /\ \E outcome \in {"ok", "transport", "malformed"} :
         calls' = [calls EXCEPT ![i] =
                     IF outcome = "ok" THEN InnerOk([@ EXCEPT !.attempts = @ + 1])
                     ELSE Transient([@ EXCEPT !.attempts = @ + 1], outcome)]
    /\ UNCHANGED <<record, before, client, notCas>>

\* RetryingClient::get_user_profile: self.client.get_user_profile(..).await
GetUserProfileInner(i) ==
    /\ calls[i].op = "get_user_profile" /\ calls[i].pc = "call"
    /\ \E outcome \in {"ok", "transport", "malformed"} :
         calls' = [calls EXCEPT ![i] =
                     IF outcome = "ok" THEN InnerOk([@ EXCEPT !.attempts = @ + 1])
                     ELSE InnerErr([@ EXCEPT !.attempts = @ + 1], outcome)]
    /\ UNCHANGED <<record, before, client, notCas>>

\* RetryingClient::get_aggregates: self.client.get_aggregates(..).await, which
\* fails on a transport error and on a record that does not parse
GetAggregatesInner(i) ==
    /\ calls[i].op = "get_aggregates" /\ calls[i].pc = "call"
    /\ \/ calls' = [calls EXCEPT ![i] =
                      IF Parses(record) THEN InnerOk([@ EXCEPT !.attempts = @ + 1])
                      ELSE InnerErr([@ EXCEPT !.attempts = @ + 1], "malformed")]
       \/ calls' = [calls EXCEPT ![i] =
                      InnerErr([@ EXCEPT !.attempts = @ + 1], "transport")]
    /\ UNCHANGED <<record, before, client, notCas>>

\* one SimpleDbClient::update_user_profile under retry
UpdateUserProfileInner(i) ==
    /\ calls[i].op = "update_user_profile" /\ calls[i].pc = "call"
    /\ \E outcome \in {"ok", "generation", "transport", "malformed"} :
         calls' = [calls EXCEPT ![i] =
                     IF outcome = "ok" THEN InnerOk([@ EXCEPT !.attempts = @ + 1])
                     ELSE Transient([@ EXCEPT !.attempts = @ + 1], outcome)]
    /\ UNCHANGED <<record, before, client, notCas>>

\* SimpleDbClient::update_aggregate under retry, the read: the bins and the
\* generation, (0, 0, 0) on KeyNotFoundError, an error when a bin does not parse
UpdateAggregateGet(i) ==
    /\ calls[i].op = "update_aggregate" /\ calls[i].pc = "call"
    /\ calls' = [calls EXCEPT ![i] =
                   IF Parses(record)
                   THEN [@ EXCEPT !.pc = "put", !.attempts = @ + 1,
                                  !.old_count = record.count,
                                  !.old_sum_price = record.sum_price,
                                  !.generation = record.generation]
                   ELSE Transient([@ EXCEPT !.attempts = @ + 1], "malformed")]
    /\ UNCHANGED <<record, before, client, notCas>>

\* the read fails with another error
UpdateAggregateGetError(i) ==
    /\ calls[i].op = "update_aggregate" /\ calls[i].pc = "call"
    /\ calls' = [calls EXCEPT ![i] =
                   Transient([@ EXCEPT !.attempts = @ + 1], "transport")]
    /\ UNCHANGED <<record, before, client, notCas>>

\* the put with ExpectGenEqual is applied, or answers GenerationError
UpdateAggregatePut(i) ==
    /\ calls[i].pc = "put"
    /\ IF calls[i].generation = record.generation
       THEN /\ record' = Written(calls[i])
            /\ calls' = [calls EXCEPT ![i] = InnerOk([@ EXCEPT !.applied = @ + 1])]
       ELSE /\ calls' = [calls EXCEPT ![i] = Transient(@, "generation")]
            /\ UNCHANGED record
    /\ UNCHANGED <<before, client, notCas>>

\* the put fails with a transport error, the write applied by the store or not
UpdateAggregatePutError(i) ==
    /\ calls[i].pc = "put"
    /\ \/ /\ UNCHANGED record
          /\ calls' = [calls EXCEPT ![i] = Transient(@, "transport")]
       \/ /\ calls[i].generation = record.generation
          /\ record' = Written(calls[i])
          /\ calls' = [calls EXCEPT ![i] =
                         Transient([@ EXCEPT !.applied = @ + 1], "transport")]
    /\ UNCHANGED <<before, client, notCas>>

\* retry: next_backoff() yields an interval, the operation is called again
RetryAgain(i) ==
    /\ calls[i].pc = "backoff"
    /\ calls[i].attempts < MaxAttempts
    /\ calls' = [calls EXCEPT ![i].pc = "call"]
    /\ UNCHANGED <<record, before, client, notCas>>

\* retry: max_elapsed_time is spent, the last error is returned
RetryGiveUp(i) ==
    /\ calls[i].pc = "backoff"
    /\ calls' = [calls EXCEPT ![i].pc = "done",
                              ![i].result = calls[i].error]
    /\ UNCHANGED <<record, before, client, notCas>>

RetryNext ==
    \E i \in Retrying :
        \/ GetUserProfileInner(i)
        \/ GetAggregatesInner(i)
        \/ UpdateUserProfileInner(i)
        \/ UpdateAggregateGet(i)
        \/ UpdateAggregateGetError(i)
        \/ UpdateAggregatePut(i)
        \/ UpdateAggregatePutError(i)
        \/ RetryAgain(i)
        \/ RetryGiveUp(i)

SpecRetry == RetryInit /\ [][RetryNext]_vars

IsRead(op) == op \in {"get_user_profile", "get_aggregates"}

\* C21: RetryingClient retries the two updates only: a get_user_profile and a
\* get_aggregates call the inner client once and return its success or its
\* error as it is.
C21_ReadsNotRetried ==
    \A i \in Retrying :
        IsRead(calls[i].op) =>
            /\ calls[i].attempts <= 1
            /\ calls[i].pc \in {"call", "done"}
            /\ calls[i].pc = "done" =>
                 /\ calls[i].attempts = 1
                 /\ calls[i].result =
                      IF calls[i].error = "none" THEN "ok" ELSE calls[i].error

\* a read that returned the error of its only call, beside an update that
\* called the inner client again
C21_Witness ==
    \E i, j \in Retrying :
        /\ IsRead(calls[i].op) /\ calls[i].pc = "done" /\ calls[i].result = "transport"
        /\ ~IsRead(calls[j].op) /\ calls[j].attempts = MaxAttempts

\* C25: a malformed store payload met by an update makes the update fail at
\* once: the inner client is not called again after the call that met it.
C25_MalformedNotRetried ==
    [][\A i \in Retrying : RetryAgain(i) => calls[i].error # "malformed"]_vars

(***************************************************************************)
(* Claims about concurrent profile updates and the errors of their write.  *)
(***************************************************************************)
\* the put answers KeyNotFoundError: the last arm of the match, Err(e) => bail!
ProfilePutKeyNotFoundError(i) ==
    LET u == updates[i]
    IN /\ u.pc = "put"
       /\ writer \in {"DbClient", "SimpleDbClient"}
       /\ updates' = [updates EXCEPT ![i] = Finished(u, "KeyNotFoundError")]
       /\ profile_reply' = NoReply
       /\ UNCHANGED <<profiles, writer, notPro>>

\* the calls of UpdateUserProfile, the KeyNotFoundError of a put told apart
\* from its other errors
WriteNext ==
    \/ ProNext
    \/ \E i \in Updates : ProfilePutKeyNotFoundError(i)

SpecProfileWrite == ProInit /\ [][WriteNext]_vars

\* how often an event is in a list
Occurrences(s, tag) == Cardinality({k \in 1..Len(s) : s[k] = tag})

\* C22: when concurrent calls of UpdateUserProfile for one cookie have all
\* returned success, no event is lost: an action of at most PROFILE_TAGS_LIMIT
\* written events has every one of them in its stored list, as often as it was
\* written; and a generation conflict sends a DbClient call back to its read
\* with its event, the store untouched.
C22_NoEventLost ==
    /\ [](AllUpdatesOk =>
            \A a \in Actions :
                Cardinality(UpdatesOf(a)) <= PROFILE_TAGS_LIMIT =>
                    LET s == StoredTags("c1", a)
                    IN /\ Len(s) = Cardinality(UpdatesOf(a))
                       /\ \A i \in UpdatesOf(a) :
                            Occurrences(s, updates[i].user_tag) =
                              Cardinality({j \in UpdatesOf(a) :
                                             updates[j].user_tag = updates[i].user_tag}))
    /\ [][\A i \in Updates :
            (ProfilePutGenerationError(i) /\ writer = "DbClient") =>
                /\ updates'[i].pc = "get"
                /\ updates'[i].user_tag = updates[i].user_tag
                /\ profiles' = profiles]_vars

\* concurrent calls of both actions have all succeeded under DbClient: the list
\* of the action written PROFILE_TAGS_LIMIT times holds that many events, the
\* list of the other action its one
C22_Witness ==
    /\ AllUpdatesOk /\ writer = "DbClient"
    /\ Cardinality(UpdatesOf("VIEW")) = PROFILE_TAGS_LIMIT
    /\ UpdatesOf("BUY") # {}
    /\ Len(StoredTags("c1", "VIEW")) = PROFILE_TAGS_LIMIT
    /\ Len(StoredTags("c1", "BUY")) = 1

\* C23: a KeyNotFoundError of the write of the profile update is transient: the
\* update goes back to its read and no call returns that error.
C23_KeyNotFoundRetried ==
    \A i \in Updates : updates[i].pc # "KeyNotFoundError"

(***************************************************************************)
(* UpdateAggregate without transport errors, every call scheduled fairly.  *)
(***************************************************************************)
\* a step of call i when the store answers every request: the tokio task of a
\* call that can proceed is polled again
CasStep(i) == Get(i) \/ PutOk(i) \/ PutGenerationError(i)

CasFairNext == \E i \in Calls : CasStep(i)

SpecCasFair ==
    /\ CasInit
    /\ [][CasFairNext]_vars
    /\ \A i \in Calls : WF_vars(CasStep(i))

\* C24: NumCalls concurrent UpdateAggregate calls on one key and no transport
\* error: every call returns success in the end, after at most NumCalls - 1
\* generation conflicts; a conflict is met only when the write of another call
\* has succeeded since this call's read, and it is never returned as an error.
C24_ConflictsBoundedAndRetried ==
    /\ [](\A i \in Calls : calls[i].conflicts <= NumCalls - 1 /\ calls[i].pc # "err")
    /\ [][\A i \in Calls :
            PutGenerationError(i) =>
                /\ record.generation > calls[i].generation
                /\ \E j \in Calls \ {i} : calls[j].pc = "ok"
                /\ calls'[i].pc = "get"]_vars
    /\ <>AllOk

\* the same for the calls of DbClient alone
C24_DbClient ==
    /\ [](client = "DbClient" =>
            \A i \in Calls : calls[i].conflicts <= NumCalls - 1 /\ calls[i].pc # "err")
    /\ [][client = "DbClient" =>
            \A i \in Calls :
                PutGenerationError(i) =>
                    /\ record.generation > calls[i].generation
                    /\ \E j \in Calls \ {i} : calls[j].pc = "ok"
                    /\ calls'[i].pc = "get"]_vars
    /\ (client = "DbClient" => <>AllOk)

\* a call of DbClient has met NumCalls - 1 conflicts and every call succeeded
C24_DbClientWitness ==
    /\ client = "DbClient" /\ AllOk
    /\ \E i \in Calls : calls[i].conflicts = NumCalls - 1

(***************************************************************************)
(* The aggregates read over records whose bins may be missing or hold a    *)
(* value that is no integer.                                               *)
(***************************************************************************)
\* Value::Int(i) and a Value of another kind
Value_Int(i) == [kind |-> "Int", int |-> i]
NotInt == [kind |-> "String", int |-> 0]

\* the records a key may hold: each of the bins count and sum_price missing, an
\* integer, or a value of another kind
RawRecords ==
    UNION {[B -> {Value_Int(3), NotInt}] : B \in SUBSET {"count", "sum_price"}}

\* the query of the raw read: two buckets, no dimension, the aggregates asked
\* for in one of three ways
RawQueries ==
    [time_range : {[from |-> 0, to |-> 2 * Minute]}, action : {"VIEW"},
     origin : {None}, brand_id : {None}, category_id : {None},
     aggregates : {<<"COUNT">>, <<"SUM_PRICE">>, <<"COUNT", "SUM_PRICE">>}]

\* the keys both readers build for the buckets of such a query
RawKeys == {<<"VIEW", 0, "", "", "">>, <<"VIEW", 1, "", "", "">>}

RawInit ==
    /\ CasIdle /\ ProIdle /\ ProcessorIdle /\ FnIdle /\ QueIdle /\ AppIdle
    /\ \E K \in SUBSET RawKeys : store \in [K -> [bins : RawRecords]]
    /\ aggregates_reply = NoAggregates

\* record.bins.get(name)
bins_get(rec, name) == IF name \in DOMAIN rec.bins THEN Some(rec.bins[name]) ELSE None

\* Aggregate::db_name
Aggregate_db_name(aggregate) == IF aggregate = "COUNT" THEN "count" ELSE "sum_price"

\* DbClient::parse_aggregate: the integer of the bin, an error when the bin is
\* missing or holds another kind of value
parse_aggregate(rec, aggregate) ==
    LET bin == bins_get(rec, Aggregate_db_name(aggregate))
    IN IF bin # None /\ bin[1].kind = "Int" THEN Ok(bin[1].int) ELSE Err

\* DbClient::parse_batch_read: both bins of a record found are parsed
try_parse_batch_read(br) ==
    IF br.record = None THEN Ok(<<br.key[2], [sum_price |-> 0, count |-> 0]>>)
    ELSE LET sum_price == parse_aggregate(br.record[1], "SUM_PRICE")
             count == parse_aggregate(br.record[1], "COUNT")
         IN IF sum_price = Err \/ count = Err THEN Err
            ELSE Ok(<<br.key[2], [sum_price |-> sum_price.value, count |-> count.value]>>)

\* DbClient::get_aggregates past batch_get: collect::<anyhow::Result<Vec<_>>>()?
\* returns the first error, else the rows are sorted and the reply made
try_get_aggregates(q, reads) ==
    LET parsed == [i \in 1..Len(reads) |-> try_parse_batch_read(reads[i])]
    IN IF \E i \in 1..Len(parsed) : parsed[i] = Err
       THEN [result |-> "err", query |-> q, rows |-> <<>>]
       ELSE LET rows == sort_by([i \in 1..Len(parsed) |-> parsed[i].value])
            IN make_reply(q, [i \in 1..Len(rows) |-> rows[i][2]])

\* value_to_int
value_to_int(value) ==
    IF value # None /\ value[1].kind = "Int" THEN Some(value[1].int) ELSE None

\* get_record_bins with its early returns: None for a read without a record and
\* for bins that do not match the aggregates asked for
filter_get_record_bins(br, has_count, has_sum_price) ==
    IF br.record = None THEN None
    ELSE LET count == value_to_int(bins_get(br.record[1], "count"))
             sum_price == value_to_int(bins_get(br.record[1], "sum_price"))
         IN CASE count # None /\ sum_price # None /\ has_count /\ has_sum_price ->
                    Some(<<br.key[2], [sum_price |-> sum_price, count |-> count]>>)
              [] count # None /\ has_count /\ ~has_sum_price ->
                    Some(<<br.key[2], [sum_price |-> None, count |-> count]>>)
              [] sum_price # None /\ ~has_count /\ has_sum_price ->
                    Some(<<br.key[2], [sum_price |-> sum_price, count |-> None]>>)
              [] OTHER -> None

\* records_to_aggregates_reply with the filter_map over get_record_bins
filter_records_to_aggregates_reply(records, q) ==
    LET has_count == \E i \in 1..Len(q.aggregates) : q.aggregates[i] = "COUNT"
        has_sum_price == \E i \in 1..Len(q.aggregates) : q.aggregates[i] = "SUM_PRICE"
        kept == SelectSeq(records,
                   LAMBDA br : filter_get_record_bins(br, has_count, has_sum_price) # None)
        db_rows == sort_by([i \in 1..Len(kept) |->
                      filter_get_record_bins(kept[i], has_count, has_sum_price)[1]])
        merged == MergeRows(bucket_starts(q.time_range), db_rows,
                            [sum_price |-> Then(has_sum_price, 0),
                             count |-> Then(has_count, 0)], 1, 0)
    IN IF merged.db_rows_idx = Len(db_rows)
       THEN make_reply_checked(q, merged.reply_rows, has_count, has_sum_price)
       ELSE [result |-> "err", query |-> q, rows |-> <<>>]

\* GetAggregates of DbClient or of the API server over such a store
RawGetAggregates(reader, q) ==
    /\ aggregates_reply = NoAggregates
    /\ \E reads \in Rearrangements(user_key_iter(q)) :
         LET reply == IF reader = "DbClient" THEN try_get_aggregates(q, reads)
                      ELSE filter_records_to_aggregates_reply(reads, q)
         IN aggregates_reply' =
              [result |-> reply.result, reader |-> reader, query |-> q,
               rows |-> reply.rows, body |-> serialize_rows(reply)]
    /\ UNCHANGED notQry

RawNext ==
    \/ \E reader \in {"DbClient", "ApiServer"}, q \in RawQueries : RawGetAggregates(reader, q)
    \/ GetAggregatesError

SpecRawQuery == RawInit /\ [][RawNext]_vars

\* a record found lacks a bin the query asks for, or holds no integer in it
Malformed(rec, q) ==
    \E i \in 1..Len(q.aggregates) :
        parse_aggregate(rec, q.aggregates[i]) = Err

\* C26: when a record found for a bucket of the query lacks an aggregate bin the
\* query asks for, or holds no integer in it, GetAggregates returns an error: no
\* reply is built in which that bucket has a row.
C26_MalformedRecordIsError ==
    aggregates_reply.result \in {"ok", "err"} =>
        ((\E key \in DOMAIN store : Malformed(store[key], aggregates_reply.query))
            => aggregates_reply.result = "err")

\* the same of DbClient's read alone
C26_DbClient ==
    (aggregates_reply.result \in {"ok", "err"} /\ aggregates_reply.reader = "DbClient") =>
        ((\E key \in DOMAIN store : Malformed(store[key], aggregates_reply.query))
            => aggregates_reply.result = "err")

(***************************************************************************)
(* The consumer process: run_consumer selects between EventStream::consume *)
(* and the stop signal, and Processor::process spawns one task for the     *)
(* profile of the event and one for each combination of its properties.    *)
(***************************************************************************)
\* UserTagPropertyCombinations: x from 0 until x > 0x7
Combinations == 0..7

\* the tasks process spawns for one event
Spawned == 1 + Cardinality(Combinations)

\* the topics the consumer starts on: at most one event in each partition
ConsumeTopics ==
    [Partitions -> {<<>>} \cup {<<FutureRecord(tag)>> : tag \in QueueTags}]

ConsumeInit ==
    /\ topic \in ConsumeTopics
    /\ requests = <<>>
    /\ consumer = Consuming
    /\ position = Zeros /\ stored_offset = Zeros /\ committed = Zeros
    /\ processed = <<>>
    /\ CasIdle /\ EngIdle /\ ProIdle /\ QryIdle /\ FnIdle /\ AppIdle

\* the consumer inside process(event).await for the message of partition p,
\* `applied` of the spawned tasks having written to the store
Processing(p, offset, applied) ==
    [state |-> "processing", partition |-> p, offset |-> offset, applied |-> applied]

\* consume: a message is received and deserialized, process spawns its tasks
ProcessSpawn(p) ==
    /\ Ready(p)
    /\ from_slice(Msg(p).payload) # None
    /\ consumer' = Processing(p, position[p], 0)
    /\ position' = [position EXCEPT ![p] = @ + 1]
    /\ UNCHANGED <<topic, requests, stored_offset, committed, processed, notQue>>

\* one of the spawned tasks has made its request and the store has applied it
TaskApplied ==
    /\ consumer.state = "processing"
    /\ consumer.applied < Spawned
    /\ consumer' = [consumer EXCEPT !.applied = @ + 1]
    /\ UNCHANGED <<topic, requests, position, stored_offset, committed, processed,
                   notQue>>

\* join_next yields the error of a task: process bails, consume returns the error
TaskFailed ==
    /\ consumer.state = "processing"
    /\ consumer.applied < Spawned
    /\ consumer' = [state |-> "failed", partition |-> consumer.partition,
                    offset |-> consumer.offset, cause |-> "process",
                    processed |-> Len(processed)]
    /\ UNCHANGED <<topic, requests, position, stored_offset, committed, processed,
                   notQue>>

\* join_next yields None: process returns Ok(()) and the offset is stored
ProcessJoined ==
    /\ consumer.state = "processing"
    /\ consumer.applied = Spawned
    /\ processed' = Append(processed,
                           [partition |-> consumer.partition, offset |-> consumer.offset,
                            event |-> from_slice(topic[consumer.partition]
                                                      [consumer.offset + 1].payload)[1]])
    /\ stored_offset' = [stored_offset EXCEPT ![consumer.partition] = consumer.offset + 1]
    /\ consumer' = Consuming
    /\ UNCHANGED <<topic, requests, position, committed, notQue>>

\* run_consumer: the stop branch of its select is taken and the consume future
\* is dropped where it stands, waiting for a message or inside process, whose
\* JoinSet is dropped with it and aborts the tasks still running
RunConsumerStop ==
    /\ consumer.state \in {"consuming", "processing"}
    /\ consumer' = IF consumer.state = "processing"
                   THEN [consumer EXCEPT !.state = "cancelled"]
                   ELSE [state |-> "stopped"]
    /\ UNCHANGED <<topic, requests, position, stored_offset, committed, processed,
                   notQue>>

ConsumeNext ==
    \/ \E p \in Partitions : ProcessSpawn(p)
    \/ TaskApplied
    \/ TaskFailed
    \/ ProcessJoined
    \/ StopConsume
    \/ RunConsumerStop
    \/ AutoCommit

SpecConsume == ConsumeInit /\ [][ConsumeNext]_vars

\* C27: the stop signal is acted on between messages only: a message handed to
\* the processor is processed to the end and, on success, its offset is stored
\* before consume returns; no stop ends the consumer on an event some of whose
\* store updates were applied and others not.
C27_StopBetweenMessages ==
    /\ consumer.state # "cancelled"
    /\ consumer.state = "stopped" =>
         \A p \in Partitions : stored_offset[p] = position[p]

\* the same of the stop branch of EventStream::consume
C27_ConsumeLoop ==
    [][StopConsume =>
         /\ consumer.state = "consuming"
         /\ \A p \in Partitions : stored_offset[p] = position[p]]_vars

(***************************************************************************)
(* Claims about what a flush of the aggregation engine marks and drains.   *)
(***************************************************************************)
\* the events drained by the tick under way, those of substream s
DrainedOf(s) == {e \in UNION {work[k].events : k \in DOMAIN work} : e[1] = s}

\* C28: a flush marks, for every substream that received an event since the
\* flush before, the offset of the last of these events, the highest; the mark
\* of a substream without an event since the flush before is not touched.
C28_LastOffsetMarked ==
    [][/\ FlushMark =>
            \A s \in SubStreams : DrainedOf(s) # {} => s \in DOMAIN marked'
       /\ \A s \in SubStreams :
            IF s \in DOMAIN marked' /\ (s \notin DOMAIN marked \/ marked'[s] # marked[s])
            THEN /\ DrainedOf(s) # {}
                 /\ \A e \in DrainedOf(s) : e[2] <= marked'[s]
                 /\ <<s, marked'[s]>> \in DrainedOf(s)
            ELSE /\ s \in DOMAIN marked => s \in DOMAIN marked'
                 /\ FlushMark => DrainedOf(s) = {}]_vars

\* a second flush has marked the second event of one substream and left the
\* mark of the other, whose one event the first flush had marked
C28_Witness ==
    /\ engine = "running" /\ to_mark = <<>>
    /\ DOMAIN marked = SubStreams
    /\ \E s, t \in SubStreams : marked[s] = 1 /\ marked[t] = 0
    /\ Cardinality(written) = MaxEvents

\* C29: a tick drains every accumulator into one update of its key, and when
\* its flush has succeeded both pending maps are empty; no event drained by a
\* tick is in an accumulator or in an update of a later one.
C29_DrainedOnce ==
    /\ [][/\ Tick => /\ DOMAIN work' = DOMAIN to_store
                     /\ \A k \in DOMAIN to_store :
                          /\ work'[k].count = to_store[k].count
                          /\ work'[k].sum_price = to_store[k].sum_price
                     /\ to_store' = <<>>
          /\ FlushMark => to_store' = <<>> /\ to_mark' = <<>>]_vars
    /\ [](/\ \A k \in DOMAIN to_store :
               /\ to_store[k].events \cap written = {}
               /\ \A j \in DOMAIN work : to_store[k].events \cap work[j].events = {}
               /\ to_store[k].count = Cardinality(to_store[k].events)
          /\ \A k \in DOMAIN work :
               /\ work[k].pc \in {"get", "put"} => work[k].events \cap written = {}
               /\ work[k].count = Cardinality(work[k].events)
               /\ \A j \in DOMAIN work \ {k} : work[k].events \cap work[j].events = {})

\* a second flush has succeeded after a first one, each with an update of its own
C29_Witness ==
    /\ engine = "running" /\ to_store = <<>> /\ to_mark = <<>>
    /\ \E k \in DOMAIN store : store[k].generation = 2
    /\ Cardinality(written) >= 2

(***************************************************************************)
(* The fan-out of one event into the aggregates of its projections: by the *)
(* engines of AggregatesFilter::all, by Worker::insert_tag and by          *)
(* Processor::process.                                                     *)
(*                                                                         *)
(* A string built of parts joined by a delimiter is the sequence of its    *)
(* parts; no value drawn here holds a delimiter.                           *)
(***************************************************************************)
\* the events one behaviour ingests
MaxIngested == 2

\* the events ingested: of both actions, two origins and two prices
FanTags ==
    {Tag(30000, "c1", a, o, "B1", "C1", p) :
        a \in {"VIEW", "BUY"}, o \in {"EU", "US"}, p \in {5, 10}}

\* an enumeration in which bit 2 decides the brand and the category both
AggregatesFilter_all_bit_shared ==
    [n \in 1..8 |->
        LET i == n - 1
        IN [origin |-> (i % 2 = 0), brand_id |-> ((i \div 2) % 2 = 0),
            category_id |-> ((i \div 2) % 2 = 0)]]

\* AggregatesFilter::all(), the Vec in the order it is pushed in
AggregatesFilter_all ==
    [n \in 1..8 |->
        LET i == n - 1
        IN [origin |-> (i % 2 = 0), brand_id |-> ((i \div 2) % 2 = 0),
            category_id |-> ((i \div 4) % 2 = 0)]]

\* one AggregatesProcessor for each filter of AggregatesFilter::all(), each
\* delivered the event once: what their event branches add to to_store
engines_event(tag) ==
    [n \in 1..Len(AggregatesFilter_all) |->
        [key |-> <<tag.action, make_bucket(AggregatesFilter_all[n], tag)>>,
         count |-> 1, sum_price |-> tag.price]]

\* AggregatesBucket::all_buckets: the bucket of the event under every filter
all_buckets(tag) ==
    [n \in 1..Len(AggregatesFilter_all) |-> make_bucket(AggregatesFilter_all[n], tag)]

\* Worker::insert_tag: what the loop adds to self.aggregates
insert_tag(tag) ==
    [n \in 1..Len(all_buckets(tag)) |->
        [key |-> [bucket |-> all_buckets(tag)[n], action |-> tag.action],
         count |-> 1, sum_price |-> tag.price]]

\* UserTagPropertyCombinations::db_names of the combination x
db_names(x, tag) ==
    LET has_origin == x % 2 # 0
        has_brand_id == (x \div 2) % 2 # 0
        has_category_id == (x \div 4) % 2 # 0
        name == IF tag.action = "BUY" THEN "buy" ELSE "view"
    IN [set |-> <<name>> \o (IF has_origin THEN <<"-origin">> ELSE <<>>)
                         \o (IF has_brand_id THEN <<"-brand_id">> ELSE <<>>)
                         \o (IF has_category_id THEN <<"-category_id">> ELSE <<>>),
        user_key |-> <<name>> \o (IF has_origin THEN <<tag.origin>> ELSE <<>>)
                              \o (IF has_brand_id THEN <<tag.brand_id>> ELSE <<>>)
                              \o (IF has_category_id THEN <<tag.category_id>> ELSE <<>>)]

\* Processor::process: add_to_aggregates for every combination, each creating
\* the record with count 1 and the price or adding them to it
process(tag) ==
    [n \in 1..Cardinality(Combinations) |->
        [key |-> db_names(n - 1, tag), count |-> 1, sum_price |-> tag.price]]

FanOuts == {"AggregatesProcessor", "Worker", "Processor"}

\* the contributions one event leads to
FanOut(fn, tag) ==
    CASE fn = "AggregatesProcessor" -> engines_event(tag)
      [] fn = "Worker" -> insert_tag(tag)
      [] OTHER -> process(tag)

\* entry(key).or_default() += (count, sum_price), one contribution after another
RECURSIVE Contribute(_, _, _)
Contribute(aggregates, contributions, n) ==
    IF n > Len(contributions) THEN aggregates
    ELSE LET c == contributions[n]
             old == IF c.key \in DOMAIN aggregates THEN aggregates[c.key]
                    ELSE [count |-> 0, sum_price |-> 0]
             new == [count |-> old.count + c.count,
                     sum_price |-> old.sum_price + c.sum_price]
         IN Contribute([k \in DOMAIN aggregates \cup {c.key} |->
                           IF k = c.key THEN new ELSE aggregates[k]],
                       contributions, n + 1)

FanInit ==
    /\ CasIdle /\ EngIdle /\ ProIdle /\ QryIdle /\ QueIdle /\ AppIdle
    /\ args \in {[fn |-> fn, tags |-> <<>>] : fn \in FanOuts}
    /\ ret = [fn |-> "fan_out", contributions |-> <<>>, aggregates |-> <<>>,
              previous |-> <<>>]

\* one event is ingested
Ingest(tag) ==
    /\ args.fn \in FanOuts
    /\ Len(args.tags) < MaxIngested
    /\ args' = [args EXCEPT !.tags = Append(@, tag)]
    /\ ret' = [fn |-> "fan_out", contributions |-> FanOut(args.fn, tag),
               aggregates |-> Contribute(ret.aggregates, FanOut(args.fn, tag), 1),
               previous |-> ret.aggregates]
    /\ UNCHANGED notFn

FanNext == \E tag \in FanTags : Ingest(tag)

SpecFanOut == FanInit /\ [][FanNext]_vars

\* the subsets of the three dimensions
Projections == SUBSET {"origin", "brand_id", "category_id"}

\* the event masked with a projection: the values of the dimensions in it
Masked(P, tag) ==
    [action |-> tag.action,
     origin |-> Then("origin" \in P, tag.origin),
     brand_id |-> Then("brand_id" \in P, tag.brand_id),
     category_id |-> Then("category_id" \in P, tag.category_id)]

\* the action and the dimensions a key of one of the fan-outs holds
Keyed(fn, key) ==
    CASE fn = "AggregatesProcessor" ->
            [action |-> key[1], origin |-> key[2].origin, brand_id |-> key[2].brand_id,
             category_id |-> key[2].category_id]
      [] fn = "Worker" ->
            [action |-> key.action, origin |-> key.bucket.origin,
             brand_id |-> key.bucket.brand_id, category_id |-> key.bucket.category_id]
      [] OTHER ->
            LET at(name) == CHOOSE n \in 1..Len(key.set) : key.set[n] = name
                has(name) == \E n \in 1..Len(key.set) : key.set[n] = name
            IN [action |-> IF key.set[1] = "buy" THEN "BUY" ELSE "VIEW",
                origin |-> Then(has("-origin"), key.user_key[at("-origin")]),
                brand_id |-> Then(has("-brand_id"), key.user_key[at("-brand_id")]),
                category_id |-> Then(has("-category_id"),
                                     key.user_key[at("-category_id")])]

MaxValueLen == 1

\* the strings over two characters, one of them the character of the delimiters
KeyStrings == SeqsUpTo({"a", "-"}, MaxValueLen)

\* i64::to_string of a minute id below 10
Decimal(n) == <<CHOOSE d \in {"0", "1", "2", "3", "4", "5", "6", "7", "8", "9"} :
                   d = <<"0", "1", "2", "3", "4", "5", "6", "7", "8", "9">>[n + 1]>>

\* the bucket tuples drawn: a minute and the three optional dimensions
KeyBuckets ==
    [timestamp : {0, 1},
     origin : {None} \cup {Some(v) : v \in KeyStrings},
     brand_id : {None} \cup {Some(v) : v \in KeyStrings},
     category_id : {None, Some(<<"a">>)}]

\* impl Display for AggregatesBucket: "{}--{}--{}--{}", None written as ""
AggregatesBucket_to_string(bucket) ==
    Decimal(bucket.timestamp) \o <<"-", "-">> \o UnwrapOr(bucket.origin, <<>>)
        \o <<"-", "-">> \o UnwrapOr(bucket.brand_id, <<>>)
        \o <<"-", "-">> \o UnwrapOr(bucket.category_id, <<>>)

\* SimpleDbClient::update_aggregate, its key: the set of the action and the
\* bucket as a string
update_aggregate_key(action, bucket) ==
    [set |-> <<db_name(action)>>, user_key |-> AggregatesBucket_to_string(bucket)]

\* AggregatesCombination::set of the combination that has the dimensions given
AggregatesCombination_set(action, bucket) ==
    <<db_name(action)>>
        \o (IF bucket.origin # None THEN <<"-origin">> ELSE <<>>)
        \o (IF bucket.brand_id # None THEN <<"-brand_id">> ELSE <<>>)
        \o (IF bucket.category_id # None THEN <<"-category_id">> ELSE <<>>)

\* AggregatesCombination::user_key: the action, the dimensions the combination
\* has and the minute, joined by "---"
AggregatesCombination_user_key(action, bucket) ==
    <<db_name(action)>>
        \o (IF bucket.origin # None THEN <<"-", "-", "-">> \o bucket.origin[1] ELSE <<>>)
        \o (IF bucket.brand_id # None THEN <<"-", "-", "-">> \o bucket.brand_id[1] ELSE <<>>)
        \o (IF bucket.category_id # None THEN <<"-", "-", "-">> \o bucket.category_id[1]
            ELSE <<>>)
        \o <<"-", "-", "-">> \o Decimal(bucket.timestamp)

\* the key the API server's store access builds
combination_key(action, bucket) ==
    [set |-> AggregatesCombination_set(action, bucket),
     user_key |-> AggregatesCombination_user_key(action, bucket)]

KeysInit ==
    /\ args \in {a \in [fn : {"AggregatesBucket", "AggregatesCombination"},
                        first : KeyBuckets, second : KeyBuckets] : a.first # a.second}
    /\ ret = NotCalled
    /\ CasIdle /\ EngIdle /\ ProIdle /\ QryIdle /\ QueIdle /\ AppIdle

\* the keys of two bucket tuples of one action as SimpleDbClient builds them
BucketKeys ==
    /\ ret = NotCalled
    /\ args.fn = "AggregatesBucket"
    /\ ret' = [fn |-> "key", first |-> update_aggregate_key("VIEW", args.first),
               second |-> update_aggregate_key("VIEW", args.second)]
    /\ UNCHANGED <<args, notFn>>

\* the same as the API server builds them
CombinationKeys ==
    /\ ret = NotCalled
    /\ args.fn = "AggregatesCombination"
    /\ ret' = [fn |-> "key", first |-> combination_key("VIEW", args.first),
               second |-> combination_key("VIEW", args.second)]
    /\ UNCHANGED <<args, notFn>>

KeysNext == BucketKeys \/ CombinationKeys

SpecKeys == KeysInit /\ [][KeysNext]_vars

\* C31: within one action two different bucket tuples, be they of different
\* projections, with empty values or with the delimiter in a value, never have
\* the same store key.
C31_KeysInjective ==
    ret # NotCalled => ret.first # ret.second

\* the same for tuples whose values are not empty and hold no "-"
C31_PlainValues ==
    LET plain(v) == v = None \/ (v[1] # <<>> /\ \A n \in 1..Len(v[1]) : v[1][n] # "-")
        plainBucket(b) == plain(b.origin) /\ plain(b.brand_id) /\ plain(b.category_id)
    IN (ret # NotCalled /\ plainBucket(args.first) /\ plainBucket(args.second))
          => ret.first # ret.second

(***************************************************************************)
(* The minute id of an event and of a bucket start, around the epoch.      *)
(***************************************************************************)
\* the minutes before and after the epoch the times are drawn from
MaxMinutes == 2

\* event times: every quarter of a minute, on the second and just before the next
EventTimes ==
    {q * 15000 + d : q \in (-4 * MaxMinutes)..(4 * MaxMinutes - 1), d \in {0, 999}}

\* bucket starts: the whole minutes
BucketStarts == {k * Minute : k \in (-MaxMinutes)..(MaxMinutes - 1)}

MinuteInit ==
    /\ args \in [fn : {"minute"}, time : EventTimes, start : BucketStarts]
    /\ ret = NotCalled
    /\ CasIdle /\ EngIdle /\ ProIdle /\ QryIdle /\ QueIdle /\ AppIdle

\* AggregatesBucket::new: timestamp: time.timestamp() / 60
AggregatesBucket_new_timestamp(time) == TruncDiv(Timestamp(time), 60)

\* the event is put in its bucket and the query computes the id of a bucket start
MinuteIds ==
    /\ ret = NotCalled
    /\ ret' = [fn |-> "minute", event |-> AggregatesBucket_new_timestamp(args.time),
               bucket |-> time_to_int_aggregate(args.start)]
    /\ UNCHANGED <<args, notFn>>

SpecMinute == MinuteInit /\ [][MinuteIds]_vars

\* C32: an event of time t has the minute id of the bucket start m with
\* m <= t < m + 1 minute and of no other bucket start.
C32_MinuteOfEvent ==
    ret # NotCalled =>
        ((args.start <= args.time /\ args.time < args.start + Minute)
            <=> ret.event = ret.bucket)

\* the same from the epoch on
C32_FromEpoch ==
    (ret # NotCalled /\ args.time >= 0 /\ args.start >= 0) =>
        ((args.start <= args.time /\ args.time < args.start + Minute)
            <=> ret.event = ret.bucket)

(***************************************************************************)
(* Claims about replayed events in the profile store.                      *)
(***************************************************************************)
\* the calls that carry the event
CallsWith(tag) == {i \in Updates : updates[i].user_tag = tag}

\* the calls that carry a newer event of the same action
CallsNewerThan(tag) ==
    {i \in UpdatesOf(tag.action) : updates[i].user_tag.time > tag.time}

\* C33: UpdateUserProfile does not deduplicate: when the calls have succeeded,
\* an event carried by several of them is in the stored list once for each
\* call, unless the bound of the list, filled with newer events, has dropped a
\* copy.
C33_NoDeduplication ==
    AllUpdatesOk =>
        \A i \in Updates :
            LET tag == updates[i].user_tag
            IN Cardinality(CallsNewerThan(tag)) + Cardinality(CallsWith(tag))
                    <= PROFILE_TAGS_LIMIT
                => Occurrences(StoredTags(tag.cookie, tag.action), tag)
                      = Cardinality(CallsWith(tag))

\* an event written twice is stored twice, an older one written by a third
\* call having been dropped
C33_Witness ==
    /\ AllUpdatesOk
    /\ writer \in {"DbClient", "SimpleDbClient"}
    /\ \E i, j, k \in Updates :
         /\ i # j /\ updates[i].user_tag = updates[j].user_tag
         /\ updates[k].user_tag.action = updates[i].user_tag.action
         /\ updates[k].user_tag.time < updates[i].user_tag.time
         /\ Occurrences(StoredTags("c1", updates[i].user_tag.action),
                        updates[i].user_tag) = 2

(***************************************************************************)
(* Claims about the writes of a retried update_aggregate.                  *)
(***************************************************************************)
\* C36: when RetryingClient::update_aggregate returns success the delta has
\* been added to the stored record exactly once, also after an attempt that
\* returned a transport error with its write applied.
C36_AppliedOnce ==
    \A i \in Retrying :
        calls[i].op = "update_aggregate" /\ calls[i].result = "ok"
            => calls[i].applied = 1

\* what the retry loop does ensure: a success has written at least once, and
\* a call none of whose attempts ended in doubt has written at most once
C36_AppliedAtLeastOnce ==
    /\ \A i \in Retrying :
          calls[i].op = "update_aggregate" /\ calls[i].result = "ok"
              => calls[i].applied >= 1
    /\ [][\A i \in Retrying :
             calls'[i].applied > calls[i].applied /\ calls[i].applied >= 1
                 => calls[i].error = "transport"]_vars

(***************************************************************************)
(* UpdateUserProfile on the records of two cookies.                        *)
(***************************************************************************)
FrameTags ==
    <<Tag(1000, "c1", "VIEW", "EU", "B1", "C1", 10),
      Tag(2000, "c1", "BUY", "EU", "B1", "C1", 7),
      Tag(3000, "c1", "VIEW", "US", "B2", "C1", 5),
      Tag(1000, "c2", "VIEW", "EU", "B1", "C1", 10)>>

FrameWorkloads ==
    {[i \in Updates |-> FrameTags[w[i]]] :
        w \in {v \in [Updates -> 1..Len(FrameTags)] :
                 \A i, j \in Updates : i < j => v[i] <= v[j]}}

FrameKeys == {user_profile_key("c1"), user_profile_key("c2")}

\* concurrent calls of the two gateways' update_user_profile on an empty store
FrameInit ==
    /\ CasIdle /\ EngIdle /\ QryIdle /\ FnIdle /\ QueIdle /\ AppIdle
    /\ profiles = <<>>
    /\ writer \in {"DbClient", "SimpleDbClient"}
    /\ \E w \in FrameWorkloads : updates = [i \in Updates |-> NewUpdate(w[i], writer)]
    /\ profile_reply = NoReply

FrameNext ==
    \E i \in Updates :
        \/ ProfileGet(i) \/ ProfileGetError(i)
        \/ ProfilePut(i) \/ ProfilePutGenerationError(i) \/ ProfilePutError(i)

SpecProfileFrame == FrameInit /\ [][FrameNext]_vars

\* what a bin of a record holds: <<list>>, or <<>> when the record or the bin
\* is absent
BinOf(store_, key, bin) ==
    IF key \in DOMAIN store_ /\ bin \in DOMAIN store_[key].bins
    THEN <<store_[key].bins[bin]>> ELSE <<>>

\* C40: UpdateUserProfile for cookie c and action A changes only the bin of A
\* in c's record: a step that changes a bin of a record is the put of a call
\* for that record's cookie and that bin's action, with or without earlier
\* generation conflicts of the call.
C40_OnlyTheActionsBin ==
    [][\A key \in FrameKeys : \A bin \in {"view", "buy"} :
          BinOf(profiles', key, bin) # BinOf(profiles, key, bin)
              => \E i \in Updates :
                    /\ updates[i].pc = "put" /\ updates'[i].pc # "put"
                    /\ user_profile_key(updates[i].user_tag.cookie) = key
                    /\ db_name(updates[i].user_tag.action) = bin]_vars

\* a call of DbClient for c1's VIEW bin is about to meet a generation conflict,
\* c1's BUY list and c2's record having been written
C40_Witness ==
    /\ writer = "DbClient"
    /\ BinOf(profiles, user_profile_key("c1"), "buy") = <<(<<FrameTags[2]>>)>>
    /\ BinOf(profiles, user_profile_key("c2"), "view") = <<(<<FrameTags[4]>>)>>
    /\ \E i \in Updates :
         /\ updates[i].pc = "put" /\ updates[i].user_tag = FrameTags[1]
         /\ updates[i].generation # GenerationOf(user_profile_key("c1"))

\* the calls having returned Ok, the record of c1 holds both lists
C40_BothBinsKept ==
    (\A i \in Updates : updates[i].pc = "ok")
        => \A i \in Updates :
              BinOf(profiles, user_profile_key(updates[i].user_tag.cookie),
                    db_name(updates[i].user_tag.action)) # <<>>

(***************************************************************************)
(* The API server process with its in-process aggregation worker: the      *)
(* build of src/src hands the tags to the worker over an unbounded         *)
(* channel, the build of api_server adds the deltas to a shared queue.     *)
(***************************************************************************)
NumSaves == 2

Saves == 1..NumSaves

AppTags ==
    <<Tag(30000, "c1", "VIEW", "EU", "B1", "C1", 10),
      Tag(30000, "c1", "VIEW", "US", "B1", "C1", 5)>>

\* the events of the requests, numbered in the order of AppTags
SaveWorkloads ==
    {[i \in Saves |-> AppTags[w[i]]] :
        w \in {v \in [Saves -> 1..Len(AppTags)] :
                 \A i, j \in Saves : i < j => v[i] <= v[j]}}

\* the keys of the deltas of an event
UpdateKeys(tag) == [n \in 1..Len(insert_tag(tag)) |-> insert_tag(tag)[n].key]

RECURSIVE Distinct(_)
\* a sequence without the repetitions of its elements
Distinct(s) ==
    IF s = <<>> THEN <<>>
    ELSE LET rest == Distinct(SubSeq(s, 1, Len(s) - 1))
             last == s[Len(s)]
         IN IF \E k \in 1..Len(rest) : rest[k] = last THEN rest
            ELSE Append(rest, last)

RECURSIVE KeysOfTags(_)
KeysOfTags(tags) ==
    IF tags = <<>> THEN <<>> ELSE UpdateKeys(Head(tags)) \o KeysOfTags(Tail(tags))

\* an enumeration of the keys the events lead to
KeyOrder == Distinct(KeysOfTags(AppTags))

Reverse(s) == [n \in 1..Len(s) |-> s[Len(s) + 1 - n]]

\* the loop over all_buckets with entry(key).or_default() and the two +=;
\* "of" remembers the requests whose deltas an entry sums
Inserted(aggregates, i, tag) ==
    LET new == insert_tag(tag)
        keys == {new[n].key : n \in 1..Len(new)}
        DeltaOf(k) == CHOOSE e \in {new[n] : n \in 1..Len(new)} : e.key = k
    IN [k \in DOMAIN aggregates \cup keys |->
          LET old == IF k \in DOMAIN aggregates THEN aggregates[k]
                     ELSE [count |-> 0, sum_price |-> 0, of |-> {}]
          IN IF k \in keys
             THEN [count |-> old.count + DeltaOf(k).count,
                   sum_price |-> old.sum_price + DeltaOf(k).sum_price,
                   of |-> old.of \cup {i}]
             ELSE old]

\* the entries of a map in the order of an enumeration of the keys
InOrder(aggregates, order) ==
    LET ks == SelectSeq(order, LAMBDA k : k \in DOMAIN aggregates)
    IN [n \in 1..Len(ks) |->
          [key |-> ks[n], count |-> aggregates[ks[n]].count,
           sum_price |-> aggregates[ks[n]].sum_price, of |-> aggregates[ks[n]].of]]

\* for (key, (count, price)) in work: the order is the HashMap's; two of the
\* orders stand for them
Iterations(aggregates) ==
    {InOrder(aggregates, KeyOrder), InOrder(aggregates, Reverse(KeyOrder))}

\* db_client.update_aggregate(key.action, key.bucket, count, price) is called
Pass(bag, entry) ==
    [e \in DOMAIN bag \cup {entry} |->
        IF e = entry THEN (IF entry \in DOMAIN bag THEN bag[entry] ELSE 0) + 1
        ELSE bag[e]]

\* run_server up to the start of the server: the App, its worker spawned, the
\* ApiServer holding a clone of the Arc
AppInit ==
    /\ CasIdle /\ EngIdle /\ ProIdle /\ QryIdle /\ FnIdle /\ QueIdle
    /\ build \in {"src", "api_server"}
    /\ \E w \in SaveWorkloads :
         saves = [i \in Saves |-> [pc |-> "none", tag |-> w[i]]]
    /\ receiver = <<>>
    /\ aggregates_queue = <<>>
    /\ worker = [pc |-> "loop", work |-> <<>>]
    /\ tasks = {}
    /\ passed = <<>>
    /\ server = "running"
    /\ stop_flag = FALSE
    /\ app_refs = {"run_server", "ApiServer", "Worker"}

\* POST /user_tags reaches App::save_user_tag. src: self.sender.send(tag)?
\* comes first, an error when the receiver is gone; api_server: the entries are
\* computed. Then update_user_profile is awaited.
SaveUserTag(i) ==
    /\ server = "running" /\ saves[i].pc = "none"
    /\ IF build = "src" /\ worker.pc = "returned"
       THEN /\ saves' = [saves EXCEPT ![i].pc = "err"]
            /\ UNCHANGED receiver
       ELSE /\ saves' = [saves EXCEPT ![i].pc = "update_user_profile"]
            /\ receiver' = IF build = "src" THEN Append(receiver, i) ELSE receiver
    /\ UNCHANGED <<build, aggregates_queue, worker, tasks, passed, server,
                   stop_flag, app_refs, notApp>>

\* update_user_profile returns Ok: src returns it, api_server goes on to
\* aggregates_queue.write()
UpdateUserProfileOk(i) ==
    /\ saves[i].pc = "update_user_profile"
    /\ saves' = [saves EXCEPT ![i].pc = IF build = "src" THEN "ok" ELSE "write"]
    /\ UNCHANGED <<build, receiver, aggregates_queue, worker, tasks, passed,
                   server, stop_flag, app_refs, notApp>>

\* update_user_profile returns an error, and so does save_user_tag
UpdateUserProfileErr(i) ==
    /\ saves[i].pc = "update_user_profile"
    /\ saves' = [saves EXCEPT ![i].pc = "err"]
    /\ UNCHANGED <<build, receiver, aggregates_queue, worker, tasks, passed,
                   server, stop_flag, app_refs, notApp>>

\* api_server: the write lock is granted, which the worker holds while it
\* pushes; the deltas are added and Ok(()) returned
QueueWrite(i) ==
    /\ saves[i].pc = "write" /\ worker.pc # "push"
    /\ aggregates_queue' = Inserted(aggregates_queue, i, saves[i].tag)
    /\ saves' = [saves EXCEPT ![i].pc = "ok"]
    /\ UNCHANGED <<build, receiver, worker, tasks, passed, server, stop_flag,
                   app_refs, notApp>>

\* src, the recv branch of select!: a tag is inserted into self.aggregates;
\* None, which recv gives once the channel is empty and its sender dropped
\* with the last Arc<App>, breaks the loop
WorkerRecv ==
    /\ build = "src" /\ worker.pc = "loop"
    /\ receiver # <<>> \/ app_refs = {}
    /\ IF receiver # <<>>
       THEN /\ aggregates_queue' =
                  Inserted(aggregates_queue, Head(receiver), saves[Head(receiver)].tag)
            /\ receiver' = Tail(receiver)
            /\ UNCHANGED <<worker, app_refs>>
       ELSE /\ worker' = [pc |-> "returned", work |-> <<>>]
            /\ app_refs' = app_refs \ {"Worker"}
            /\ UNCHANGED <<receiver, aggregates_queue>>
    /\ UNCHANGED <<build, saves, tasks, passed, server, stop_flag, notApp>>

\* src, the tick branch: the aggregates are taken and push_to_db is spawned
\* with them
WorkerTick ==
    /\ build = "src" /\ worker.pc = "loop"
    /\ aggregates_queue' = <<>>
    /\ \E job \in Iterations(aggregates_queue) :
         tasks' = IF job = <<>> THEN tasks ELSE tasks \cup {job}
    /\ UNCHANGED <<build, saves, receiver, worker, passed, server, stop_flag,
                   app_refs, notApp>>

\* a step of a push_to_db task: update_aggregate is called with the next
\* entry, its error logged
PushToDb(job) ==
    /\ job \in tasks
    /\ passed' = Pass(passed, Head(job))
    /\ tasks' = (tasks \ {job}) \cup (IF Tail(job) = <<>> THEN {} ELSE {Tail(job)})
    /\ UNCHANGED <<build, saves, receiver, aggregates_queue, worker, server,
                   stop_flag, app_refs, notApp>>

\* the same loop breaking as soon as the stop flag is set
WorkerTickQueueStopFirst ==
    /\ build = "api_server" /\ worker.pc = "loop"
    /\ IF stop_flag
       THEN /\ worker' = [pc |-> "returned", work |-> <<>>]
            /\ app_refs' = app_refs \ {"Worker"}
            /\ aggregates_queue' = <<>>
       ELSE /\ \E job \in Iterations(aggregates_queue) :
                 worker' = IF job = <<>> THEN worker
                           ELSE [pc |-> "push", work |-> job]
            /\ aggregates_queue' = <<>>
            /\ UNCHANGED app_refs
    /\ UNCHANGED <<build, saves, receiver, tasks, passed, server, stop_flag,
                   notApp>>

\* api_server, an iteration of Worker::run up to its for loop: after the tick
\* the write lock is taken and the queue with mem::take; the loop is left when
\* the work is empty and the stop flag set
WorkerTickQueue ==
    /\ build = "api_server" /\ worker.pc = "loop"
    /\ IF aggregates_queue = <<>> /\ stop_flag
       THEN /\ worker' = [pc |-> "returned", work |-> <<>>]
            /\ app_refs' = app_refs \ {"Worker"}
            /\ UNCHANGED aggregates_queue
       ELSE /\ \E job \in Iterations(aggregates_queue) :
                 worker' = IF job = <<>> THEN worker
                           ELSE [pc |-> "push", work |-> job]
            /\ aggregates_queue' = <<>>
            /\ UNCHANGED app_refs
    /\ UNCHANGED <<build, saves, receiver, tasks, passed, server, stop_flag,
                   notApp>>

\* api_server, a round of the for loop: update_aggregate is called with the
\* next entry, its error logged; after the last entry the lock is released
WorkerUpdateAggregate ==
    /\ worker.pc = "push"
    /\ passed' = Pass(passed, Head(worker.work))
    /\ worker' = IF Tail(worker.work) = <<>> THEN [pc |-> "loop", work |-> <<>>]
                 ELSE [pc |-> "push", work |-> Tail(worker.work)]
    /\ UNCHANGED <<build, saves, receiver, aggregates_queue, tasks, server,
                   stop_flag, app_refs, notApp>>

\* the stop signal: the graceful shutdown begins, no request is accepted
StopSignal ==
    /\ server = "running"
    /\ server' = "draining"
    /\ UNCHANGED <<build, saves, receiver, aggregates_queue, worker, tasks,
                   passed, stop_flag, app_refs, notApp>>

\* ApiServer::run returns, the requests in flight answered: its Arc<App> is
\* dropped, and api_server's run_server stores the stop flag
ServerStopped ==
    /\ server = "draining"
    /\ \A i \in Saves : saves[i].pc \in {"none", "ok", "err"}
    /\ server' = "stopped"
    /\ app_refs' = app_refs \ {"ApiServer"}
    /\ stop_flag' = (build = "api_server")
    /\ UNCHANGED <<build, saves, receiver, aggregates_queue, worker, tasks,
                   passed, notApp>>

\* worker_task.await completes and run_server returns
RunServerReturn ==
    /\ server = "stopped" /\ worker.pc = "returned"
    /\ server' = "returned"
    /\ app_refs' = app_refs \ {"run_server"}
    /\ UNCHANGED <<build, saves, receiver, aggregates_queue, worker, tasks,
                   passed, stop_flag, notApp>>

AppNext ==
    \/ \E i \in Saves :
         \/ SaveUserTag(i) \/ UpdateUserProfileOk(i) \/ UpdateUserProfileErr(i)
         \/ QueueWrite(i)
    \/ WorkerRecv \/ WorkerTick
    \/ \E job \in tasks : PushToDb(job)
    \/ WorkerTickQueue \/ WorkerUpdateAggregate
    \/ StopSignal \/ ServerStopped \/ RunServerReturn

SpecApp == AppInit /\ [][AppNext]_vars

\* the tasks are polled by the runtime, the ticker fires again and again, and
\* the requests that have arrived go on
SpecAppFair ==
    /\ SpecApp
    /\ WF_vars(WorkerRecv) /\ WF_vars(WorkerTick)
    /\ WF_vars(WorkerTickQueue) /\ WF_vars(WorkerUpdateAggregate)
    /\ WF_vars(\E job \in tasks : PushToDb(job))
    /\ \A i \in Saves :
         WF_vars(UpdateUserProfileOk(i) \/ UpdateUserProfileErr(i) \/ QueueWrite(i))
    /\ WF_vars(ServerStopped) /\ WF_vars(RunServerReturn)

\* the process of api_server alone
SharedQueueInit == AppInit /\ build = "api_server"

SharedQueueNext ==
    \/ \E i \in Saves :
         \/ SaveUserTag(i) \/ UpdateUserProfileOk(i) \/ UpdateUserProfileErr(i)
         \/ QueueWrite(i)
    \/ WorkerTickQueue \/ WorkerUpdateAggregate
    \/ StopSignal \/ ServerStopped \/ RunServerReturn

SpecSharedQueue == SharedQueueInit /\ [][SharedQueueNext]_vars

\* how often the deltas of a request were passed to update_aggregate for a key
TimesPassed(i, key) ==
    SumOver(passed, {e \in DOMAIN passed : e.key = key /\ i \in e.of})

KeySet(tag) == {UpdateKeys(tag)[n] : n \in 1..Len(UpdateKeys(tag))}

\* C35: no internal queue grows without bound: the events accepted by the
\* ingest path and not yet taken by the worker stay below a bound, so that
\* the channel never holds every one of the NumSaves events accepted.
C35_QueueBounded == Len(receiver) < NumSaves

\* C37: when save_user_tag has returned an error, none of the event's deltas
\* is ever passed to update_aggregate.
C37_FailedSaveNotCounted ==
    \A i \in Saves :
        saves[i].pc = "err" => \A e \in DOMAIN passed : i \notin e.of

\* with the shared queue of api_server the deltas of a failed call are
\* nowhere: not in the queue, not in the worker's work, not passed
C37_ApiServer ==
    build = "api_server" =>
        \A i \in Saves :
            saves[i].pc = "err" =>
                /\ \A e \in DOMAIN passed : i \notin e.of
                /\ \A k \in DOMAIN aggregates_queue : i \notin aggregates_queue[k].of
                /\ \A n \in 1..Len(worker.work) : i \notin worker.work[n].of

\* C38: after the API server has stopped on the stop signal, the worker
\* leaves its loop and run_server returns.
C38_WorkerTerminates == (server = "stopped") ~> (server = "returned")

\* with the stop flag of api_server the worker does leave
C38_ApiServer ==
    (build = "api_server" /\ server = "stopped") ~> (server = "returned")

\* the worker of src holds an Arc<App>, and with it the sender, as long as
\* it runs
C38_SenderHeld ==
    build = "src" => worker.pc = "loop" /\ "Worker" \in app_refs

\* C39: with the shared queue Worker::run returns only at a tick at which the
\* stop flag is set and the queue is empty, and once it has returned the
\* deltas of every completed save_user_tag have been passed to
\* update_aggregate exactly once for each of the event's keys; before that
\* they are passed at most once.
C39_ReturnsDrained ==
    /\ [](build = "api_server" =>
            \A i \in Saves : \A k \in KeySet(saves[i].tag) :
                /\ TimesPassed(i, k) <= 1
                /\ worker.pc = "returned" /\ saves[i].pc = "ok"
                      => TimesPassed(i, k) = 1)
    /\ [][build = "api_server" /\ worker.pc # "returned" /\ worker'.pc = "returned"
             => worker.pc = "loop" /\ stop_flag /\ aggregates_queue = <<>>]_vars

\* the worker has returned after two completed calls, the deltas of which
\* were passed in different rounds of its loop
C39_Witness ==
    /\ build = "api_server" /\ worker.pc = "returned"
    /\ \A i \in Saves : saves[i].pc = "ok"
    /\ \A e \in DOMAIN passed : Cardinality(e.of) = 1
    /\ \A i \in Saves : \A k \in KeySet(saves[i].tag) : TimesPassed(i, k) = 1

(***************************************************************************)
(* The aggregation engine across crashes and restarts: the stream delivers *)
(* the events of a topic from the committed offset again, and the engine   *)
(* is run with either implementation of DbClient.                          *)
(***************************************************************************)
MaxDeliveries == 3

ReplayTags ==
    {Tag(0, "c1", "VIEW", "EU", "B1", "C1", 10),
     Tag(1000, "c2", "VIEW", "US", "B1", "C1", 5)}

ReplayStreams == {"p0"}

\* the topics: two events in the partition
ReplayTopics == {[s \in ReplayStreams |-> <<a, b>>] : a, b \in ReplayTags}

\* a new consumer group on a topic that holds its events; "processed" lists the
\* deliveries of the stream to the engine
ReplayInit ==
    /\ ProIdle /\ QryIdle /\ FnIdle /\ AppIdle
    /\ record = AbsentRecord /\ before = <<0, 0>> /\ calls = <<>>
    /\ client \in {"SimpleDbClient", "RetryingClient"}
    /\ topic \in ReplayTopics
    /\ requests = <<>> /\ consumer = Consuming
    /\ position = [s \in ReplayStreams |-> 0]
    /\ stored_offset = [s \in ReplayStreams |-> 0]
    /\ committed = [s \in ReplayStreams |-> 0]
    /\ processed = <<>>
    /\ store = <<>>
    /\ filter \in EngineFilters
    /\ to_store = <<>> /\ to_mark = <<>>
    /\ engine = "running"
    /\ work = <<>>
    /\ error_flag = FALSE
    /\ marked = <<>> /\ received = <<>> /\ written = {}

\* the select branch `event = events.try_next()`, the stream delivering the
\* event at its position
Deliver(s) ==
    /\ engine = "running"
    /\ position[s] < Len(topic[s])
    /\ Len(processed) < MaxDeliveries
    /\ LET offset == position[s]
           tag == topic[s][offset + 1]
           k == <<tag.action, make_bucket(filter, tag)>>
       IN /\ to_store' = [x \in DOMAIN to_store \cup {k} |->
                            IF x = k THEN Accumulate(EntryOrDefault(k), tag, <<s, offset>>)
                            ELSE to_store[x]]
          /\ to_mark' = [x \in DOMAIN to_mark \cup {s} |->
                           IF x = s THEN offset ELSE to_mark[x]]
          /\ received' = (<<s, offset>> :> tag) @@ received
          /\ processed' = Append(processed,
                                 [partition |-> s, offset |-> offset, event |-> tag])
    /\ position' = [position EXCEPT ![s] = @ + 1]
    /\ UNCHANGED <<store, filter, engine, work, error_flag, marked, written,
                   topic, requests, consumer, stored_offset, committed,
                   casVars, proVars, qryVars, fnVars, appVars>>

\* RetryingClient::update_aggregate: an attempt of the inner update_aggregate
\* fails, at its read or at its put, by a generation conflict or with the write
\* applied or not; after the backoff the inner update_aggregate is called again
UpdateRetried(k) ==
    /\ client = "RetryingClient"
    /\ engine = "flushing"
    /\ work[k].pc \in {"get", "put"}
    /\ LET key == StoreKey(k[1], k[2])
       IN \/ UNCHANGED <<store, written>>
          \/ /\ work[k].pc = "put"
             /\ work[k].generation = Lookup(key).generation
             /\ Lookup(key).count <= MaxDeliveries
             /\ store' = StorePut(key, WrittenRecord(work[k], key))
             /\ written' = written \cup work[k].events
    /\ work' = [work EXCEPT ![k] = Returned(@, "get")]
    /\ UNCHANGED <<filter, to_store, to_mark, engine, error_flag, marked, received,
                   notEng>>

\* enable.auto.commit: the offsets stored by mark_processed are committed, the
\* offset after the event marked being where a consumer resumes
CommitMarked ==
    /\ \E s \in DOMAIN marked : committed[s] # marked[s] + 1
    /\ committed' = [s \in DOMAIN committed |->
                        IF s \in DOMAIN marked THEN marked[s] + 1 ELSE committed[s]]
    /\ UNCHANGED <<topic, requests, consumer, position, stored_offset, processed,
                   notQue>>

\* the process crashes or run has returned, and the engine is started again:
\* its maps are empty and the stream resumes from the committed offsets
EngineRestart ==
    /\ to_store' = <<>> /\ to_mark' = <<>>
    /\ engine' = "running"
    /\ work' = <<>>
    /\ error_flag' = FALSE
    /\ position' = committed
    /\ UNCHANGED <<store, filter, marked, received, written,
                   topic, requests, consumer, stored_offset, committed, processed,
                   casVars, proVars, qryVars, fnVars, appVars>>

ReplayNext ==
    \/ \E s \in ReplayStreams : Deliver(s)
    \/ EventError
    \/ Stop
    \/ Tick
    \/ \E k \in DOMAIN work :
          \/ UpdateGet(k)
          \/ UpdateGetError(k)
          \/ UpdatePut(k)
          \/ UpdatePutError(k)
          \/ UpdateRetried(k)
    \/ FlushMark
    \/ FlushFailed
    \/ CommitMarked
    \/ EngineRestart

SpecReplay == ReplayInit /\ [][ReplayNext]_vars

\* the keys of the records the engine writes for the events of the topic
ReplayKeys ==
    {StoreKey(topic[s][n].action, make_bucket(filter, topic[s][n])) :
        s \in ReplayStreams, n \in 1..2}

MatchesKey(key, tag) == key = StoreKey(tag.action, make_bucket(filter, tag))

StoredCount(key) == Lookup(key).count

\* the deliveries of the events of a key to the engine
Deliveries(k) ==
    Cardinality({n \in 1..Len(processed) : MatchesKey(k, processed[n].event)})

\* the events of a key at offsets up to the one marked processed
MarkedEvents(k) ==
    {e \in {<<s, o>> : s \in DOMAIN marked, o \in 0..MaxDeliveries} :
        /\ e[2] <= marked[e[1]]
        /\ MatchesKey(k, topic[e[1]][e[2] + 1])}

\* C34: across crashes and restarts from the committed offset, the stored
\* count of every key is at least the number of its distinct events marked
\* processed and at most the number of deliveries of its events to the engine.
C34_CountBetween ==
    \A k \in ReplayKeys :
        /\ Cardinality(MarkedEvents(k)) <= StoredCount(k)
        /\ StoredCount(k) <= Deliveries(k)

\* the bounds hold for the engine run with SimpleDbClient, and the lower one
\* with either client
C34_SimpleDbClient ==
    \A k \in ReplayKeys :
        /\ Cardinality(MarkedEvents(k)) <= StoredCount(k)
        /\ client = "SimpleDbClient" => StoredCount(k) <= Deliveries(k)

\* a replayed event is counted again
C34_Replayed ==
    \E k \in ReplayKeys :
        /\ client = "SimpleDbClient"
        /\ StoredCount(k) > Cardinality({e \in DOMAIN received : MatchesKey(k, received[e])})

====
